---- MODULE Spec2Model ----
(***************************************************************************)
(* Model of the Trino MCP gateway: the statement-protocol client           *)
(* (app/trino_client.py), the error classifier (app/errors.py), the RPC    *)
(* handlers (app/rpc.py) and the /mcp endpoint (app/main.py).              *)
(*                                                                         *)
(* Strings the code only tests with `in` are modelled as SETS OF PHRASES:  *)
(* a message is the set of the text fragments it is built from, an         *)
(* f-string adds its literal part to the set, and `"X" in msg` is          *)
(* Has(msg, "X"): some phrase of msg contains the text X.                  *)
(***************************************************************************)
EXTENDS Integers, Sequences, FiniteSets, TLC

(***************************************************************************)
(* Bounds of the model.                                                    *)
(***************************************************************************)
\* largest retry_attempts a client is constructed with (SpecRetry)
MaxAttempts == 4
\* largest retry_delay a client is constructed with (SpecRetry)
MaxDelay == 2
\* most text fragments in one failure message handed to the classifier
MaxMsgFrags == 2
\* handle_trino_error applied to its own result at most this many times
\* (passes in all)
MaxPasses == 3
\* most text fragments in the message of an engine error object
MaxErrFrags == 1
\* largest maxRows a caller passes explicitly
MaxRows == 2
\* most rows the engine puts in one page
MaxPageRows == 3
\* most continuation pages the engine serves for one query
MaxPages == 2

(***************************************************************************)
(* Program constants.                                                      *)
(***************************************************************************)
PARSE_ERROR == -32700
INVALID_REQUEST == -32600
INVALID_PARAMS == -32602
METHOD_NOT_FOUND == -32601
INTERNAL_ERROR == -32603
TRINO_CONNECTION_ERROR == -33000
TRINO_QUERY_ERROR == -33001
TRINO_AUTH_ERROR == -33002
TRINO_RESOURCE_ERROR == -33003
TRINO_TIMEOUT_ERROR == -33004
TRINO_SYNTAX_ERROR == -33005
DefaultRetryAttempts == 3
DefaultRetryDelay == 1
DefaultMaxRows == 100

(***************************************************************************)
(* errors.py: the error taxonomy and the classifier.                       *)
(***************************************************************************)
\* The text fragments a failure message coming from the engine or from the
\* transport may hold; each is one of the texts handle_trino_error looks for,
\* or a text it does not look for ("mismatched input").
Fragments ==
    { "Connection refused", "Failed to establish a new connection",
      "Invalid credentials", "Authentication failed", "does not exist",
      "catalog", "schema", "table", "syntax error", "line", "position",
      "exceeded the query timeout", "execution time exceeded",
      "mismatched input" }

\* The texts handle_trino_error looks for that phrase p contains ("syntax
\* error" is looked for in the lower-cased message, the others as written).
MarkersOf(p) ==
    IF p \in Fragments THEN {p}
    ELSE IF p \in { "Authentication failed. Check your credentials.",
                    "Authentication failed. Please check your credentials." }
         THEN {"Authentication failed"}
    ELSE IF p \in { "SQL syntax error: ", "Syntax error: " }
         THEN {"syntax error"}
    ELSE IF p = "Expecting value: line 1 column 1 (char 0)"
         THEN {"line"}
    ELSE {}

\* `marker in msg`
Has(msg, marker) == \E p \in msg : marker \in MarkersOf(p)

\* MCPError.data: None, or {"original_error": <message>}
NoData == [present |-> FALSE, original_error |-> {}]

\* error_data left out of the MCPError that is returned.
NoOriginalError(msg) == NoData

OriginalError(msg) == [present |-> TRUE, original_error |-> msg]

\* An exception object: its class, str(exception), and MCPError.data.
Exc(cls, msg) == [cls |-> cls, msg |-> msg, data |-> NoData]

MCPError(cls, msg, data) == [cls |-> cls, msg |-> msg, data |-> data]

MCPClasses ==
    { "InvalidParams", "MethodNotFound", "InternalError",
      "TrinoConnectionError", "TrinoQueryError", "TrinoAuthError",
      "TrinoResourceError", "TrinoTimeoutError", "TrinoSyntaxError" }

\* The numeric code each MCPError subclass passes to MCPError.__init__.
ErrorCode(cls) ==
    CASE cls = "ParseError" -> PARSE_ERROR
      [] cls = "InvalidRequest" -> INVALID_REQUEST
      [] cls = "InvalidParams" -> INVALID_PARAMS
      [] cls = "MethodNotFound" -> METHOD_NOT_FOUND
      [] cls = "InternalError" -> INTERNAL_ERROR
      [] cls = "TrinoConnectionError" -> TRINO_CONNECTION_ERROR
      [] cls = "TrinoQueryError" -> TRINO_QUERY_ERROR
      [] cls = "TrinoAuthError" -> TRINO_AUTH_ERROR
      [] cls = "TrinoResourceError" -> TRINO_RESOURCE_ERROR
      [] cls = "TrinoTimeoutError" -> TRINO_TIMEOUT_ERROR
      [] cls = "TrinoSyntaxError" -> TRINO_SYNTAX_ERROR

\* The first rule of handle_trino_error, with the marker forgotten.
ConnectionRuleNoRefused(error_msg) ==
    Has(error_msg, "Failed to establish a new connection")

\* errors.py line 143
ConnectionRule(error_msg) ==
    \/ Has(error_msg, "Connection refused")
    \/ Has(error_msg, "Failed to establish a new connection")

\* errors.py line 149
AuthRule(error_msg) ==
    \/ Has(error_msg, "Invalid credentials")
    \/ Has(error_msg, "Authentication failed")

\* errors.py line 164: A or (B and C)
SyntaxRule(error_msg) ==
    \/ Has(error_msg, "syntax error")
    \/ (Has(error_msg, "line") /\ Has(error_msg, "position"))

\* errors.py line 167
TimeoutRule(error_msg) ==
    \/ Has(error_msg, "exceeded the query timeout")
    \/ Has(error_msg, "execution time exceeded")

handle_trino_error(error) ==
    LET error_msg == error.msg
        error_data == OriginalError(error_msg)
    IN  IF ConnectionRule(error_msg)
        THEN MCPError("TrinoConnectionError",
                 {"Failed to connect to Trino server. Please check that the server is running and accessible."},
                 error_data)
        ELSE IF AuthRule(error_msg)
        THEN MCPError("TrinoAuthError",
                 {"Authentication failed. Please check your credentials."},
                 error_data)
        ELSE IF Has(error_msg, "does not exist")
        THEN IF Has(error_msg, "catalog")
             THEN MCPError("TrinoResourceError",
                      {"Catalog not found: "} \cup error_msg, error_data)
             ELSE IF Has(error_msg, "schema")
             THEN MCPError("TrinoResourceError",
                      {"Schema not found: "} \cup error_msg, error_data)
             ELSE IF Has(error_msg, "table")
             THEN MCPError("TrinoResourceError",
                      {"Table not found: "} \cup error_msg, error_data)
             ELSE MCPError("TrinoResourceError",
                      {"Resource not found: "} \cup error_msg, error_data)
        ELSE IF SyntaxRule(error_msg)
        THEN MCPError("TrinoSyntaxError",
                 {"SQL syntax error: "} \cup error_msg, error_data)
        ELSE IF TimeoutRule(error_msg)
        THEN MCPError("TrinoTimeoutError",
                 {"Query execution timed out: "} \cup error_msg, error_data)
        ELSE MCPError("TrinoQueryError",
                 {"Error executing Trino query: "} \cup error_msg, error_data)

(***************************************************************************)
(* State.                                                                  *)
(***************************************************************************)
VARIABLES
    \* TrinoClient fields (the process-wide default_client)
    retry_attempts, retry_delay, user, http_headers,
    \* one _request_with_retry call: where it is ("idle", "attempt",
    \* "returned", "raised"), the loop variable, last_exception, the
    \* time.sleep() arguments so far, the number of requests it has sent,
    \* and the exception it raised
    http_pc, attempt, last_exception, waits, n_sent, http_exc,
    \* the request sent last, by this call or by an earlier one: the status
    \* it was answered with and the X-Trino-User header it carried
    last_sent,
    \* the classifier exercised alone: the failure handed in, and the
    \* results of handle_trino_error applied to it once, twice, ...
    cls_input, cls_chain,
    \* one /mcp request: where its handling is, the caller's principal, the
    \* method and the max_rows argument
    pc, principal, method, max_rows,
    \* locals of the client method that is running: rows, columns, whether
    \* the last page had a nextUri, next_token, status["state"], the
    \* error_info last read from a response body, and where
    \* get_query_results went for its first page
    rows, columns, has_next, next_token, status_state, error_info, results_url,
    \* whether a response of the result stream the method is reading held an
    \* "error" object, read by the method or not
    stream_error,
    \* the engine's side of the current query: rows sent so far,
    \* continuation pages served so far
    served, pages,
    \* the exception on its way out: as first raised, then after each
    \* `except Exception as e: raise handle_trino_error(e)` it passes
    err_trail,
    \* the JSON-RPC response of the request
    response,
    \* /mcp requests handled by concurrent tasks of the event loop: for each
    \* task where it is and the authenticated principal of its request; and
    \* the HTTP calls that reached the engine, each with the principal of
    \* the request it was sent for and the X-Trino-User header it carried
    inflight, wire,
    \* client calls running in concurrent worker threads: for each thread
    \* where its call is, its arguments, its locals original_catalog and
    \* original_schema, the catalog and schema headers as they were when the
    \* call began and as its engine request carried them, and whether its
    \* query failed; and the catalog and schema headers the client was
    \* constructed with
    calls, scope0,
    \* one dispatch_rpc call taken alone: its params argument, and the handler
    \* and the client operation it has called, with the arguments
    params, called,
    \* one /mcp request taken alone: what arrived, and the HTTP response
    request, reply,
    \* one asynchronous query: the engine's side of it (its native state and
    \* how it is going to end), the submission response and what submit_query
    \* made of it, what the get_query_status calls have reported, and what
    \* cancel_query returned
    engine, submitted, observed, cancel_result,
    \* the session properties the client was constructed with (key and value
    \* pairs in the mapping's order), the X-Trino-Session entry of its headers,
    \* and the X-Trino-Session header of the request sent last
    session_properties, session_header, wire_session,
    \* the event loop of the server: for each inbound request the coroutine
    \* handling it (what it serves, where it is, and the thread its engine call
    \* runs in), and the coroutine that holds the event loop's thread
    coros, loop_holder,
    \* the local query_info of get_query_results: the body of its second read
    \* of the query info
    query_info,
    \* the two query paths on one input: the result pages the engine serves in
    \* order, the max_rows argument, and what execute_query and
    \* get_query_results each return for them
    page_seq, path_max_rows, sync_result, async_result,
    \* the stdio bridge: the number of lines it has read from stdin, and the
    \* lines it has written to stdout, each with the input line that caused it
    bridge_in, bridge_out

clientVars == <<retry_attempts, retry_delay, user, http_headers>>

httpVars == <<http_pc, attempt, last_exception, waits, n_sent, http_exc,
              last_sent>>

classVars == <<cls_input, cls_chain>>

reqVars == <<pc, principal, method, max_rows>>

opVars == <<rows, columns, has_next, next_token, status_state, error_info,
            results_url, stream_error, served, pages, err_trail, response>>

scopeVars == <<calls, scope0>>

dispatchVars == <<params, called>>

envelopeVars == <<request, reply>>

lifecycleVars == <<engine, submitted, observed, cancel_result>>

sessionVars == <<session_properties, session_header, wire_session>>

loopVars == <<coros, loop_holder>>

infoVars == <<query_info>>

pathVars == <<page_seq, path_max_rows, sync_result, async_result>>

bridgeVars == <<bridge_in, bridge_out>>

endpointVars == <<inflight, wire, scopeVars, dispatchVars, envelopeVars,
                  lifecycleVars, sessionVars, loopVars, infoVars, pathVars, bridgeVars>>

vars == <<clientVars, httpVars, classVars, reqVars, opVars, endpointVars>>

NoException == Exc("None", {})

\* 2 ** n
RECURSIVE Pow2(_)
Pow2(n) == IF n = 0 THEN 1 ELSE 2 * Pow2(n - 1)

(***************************************************************************)
(* trino_client.py: TrinoClient.__init__ and _request_with_retry.          *)
(***************************************************************************)
\* A key the dict does not hold: dict.get gives None for it.
Absent == "(absent)"

\* self.http_headers after __init__, for a client whose catalog and schema
\* entries are as given (Absent: no entry).
Headers(u, catalog, schema) ==
    [h \in {"User-Agent", "X-Trino-User", "X-Trino-Catalog", "X-Trino-Schema"} |->
        CASE h = "User-Agent" -> "trino-mcp-client"
          [] h = "X-Trino-User" -> u
          [] h = "X-Trino-Catalog" -> catalog
          [] h = "X-Trino-Schema" -> schema]

\* TrinoClient.__init__(user=u, retry_attempts=n, retry_delay=d), with the
\* catalog and schema of main.py's default configuration: None.
ClientInit(u, n, d) ==
    /\ retry_attempts = n
    /\ retry_delay = d
    /\ user = u
    /\ http_headers = Headers(u, Absent, Absent)

NothingSent == [status |-> "none", user |-> "none"]

HttpIdle ==
    /\ http_pc = "idle"
    /\ attempt = 0
    /\ last_exception = NoException
    /\ waits = <<>>
    /\ n_sent = 0
    /\ http_exc = NoException
    /\ last_sent = NothingSent

\* What one requests.request call can come to: an HTTP status, or a
\* transport exception with its message.
TransportMsgs ==
    { {"Connection refused"}, {"Failed to establish a new connection"},
      {"Read timed out"} }

FailedOutcomes ==
    [status : {"401", "403"}, msg : {{}}]
    \cup [status : {"404"}, msg : {{"404 Client Error"}}]
    \cup [status : {"500"}, msg : {{"500 Server Error"}}]
    \cup [status : {"exception"}, msg : TransportMsgs]

\* The exception raised inside the try block for a failed outcome: lines
\* 208-211 for 401/403, response.raise_for_status() for the other 4xx and
\* the 5xx, requests.request itself for a transport failure.
AttemptException(outcome) ==
    CASE outcome.status = "401" ->
            Exc("TrinoAuthError",
                {"Authentication failed. Check your credentials."})
      [] outcome.status = "403" ->
            Exc("TrinoAuthError",
                {"Permission denied. The user does not have sufficient privileges."})
      [] outcome.status \in {"404", "500"} ->
            Exc("HTTPError", outcome.msg)
      [] outcome.status = "exception" ->
            Exc("ConnectionError", outcome.msg)

\* The except clause widened to `except Exception`, which also catches the
\* TrinoAuthError of a 401/403.
CaughtByRetryAnyException(e) == TRUE

\* `except (requests.RequestException, ConnectionError)`: HTTPError and the
\* transport exceptions are RequestExceptions, TrinoAuthError is not.
CaughtByRetry(e) == e.cls \in {"HTTPError", "ConnectionError"}

\* The backoff without the `attempt < retry_attempts - 1` test: it sleeps
\* after the last attempt too.
BackoffAfterLast(k) == Append(waits, retry_delay * Pow2(k))

\* time.sleep(wait_time) of line 218-220, when it is called
Backoff(k) ==
    IF k < retry_attempts - 1
    THEN Append(waits, retry_delay * Pow2(k))
    ELSE waits

\* The request that an attempt sends: headers=self.http_headers
Sent(status) == [status |-> status, user |-> http_headers["X-Trino-User"]]

\* Entering _request_with_retry: last_exception = None, the loop starts.
HttpBegin ==
    /\ http_pc' = "attempt"
    /\ attempt' = 0
    /\ last_exception' = NoException
    /\ waits' = <<>>
    /\ n_sent' = 0
    /\ http_exc' = NoException
    /\ UNCHANGED last_sent

\* An attempt that is answered 2xx: raise_for_status passes and the
\* response is returned (line 214).  The call is shown as it ends.
HttpReturn ==
    /\ http_pc = "attempt"
    /\ attempt < retry_attempts
    /\ http_pc' = "returned"
    /\ n_sent' = n_sent + 1
    /\ last_sent' = Sent("200")
    /\ UNCHANGED <<attempt, last_exception, waits, http_exc>>

\* The same return of line 214, seen from the client method that made the
\* call and goes on with the response: the call's frame is gone.
HttpOk ==
    /\ http_pc = "attempt"
    /\ attempt < retry_attempts
    /\ http_pc' = "idle"
    /\ n_sent' = 0
    /\ last_sent' = Sent("200")
    /\ attempt' = 0
    /\ last_exception' = NoException
    /\ waits' = <<>>
    /\ UNCHANGED http_exc

\* An attempt whose exception the except clause catches: remember it, sleep
\* unless this was the last attempt, go round the loop.
AttemptCaught(outcome) ==
    LET e == AttemptException(outcome) IN
    /\ http_pc = "attempt"
    /\ attempt < retry_attempts
    /\ CaughtByRetry(e)
    /\ n_sent' = n_sent + 1
    /\ last_sent' = Sent(outcome.status)
    /\ last_exception' = e
    /\ waits' = Backoff(attempt)
    /\ attempt' = attempt + 1
    /\ UNCHANGED <<http_pc, http_exc>>

\* An attempt whose exception the except clause does not catch: it leaves
\* _request_with_retry at once.
AttemptUncaught(outcome) ==
    LET e == AttemptException(outcome) IN
    /\ http_pc = "attempt"
    /\ attempt < retry_attempts
    /\ ~CaughtByRetry(e)
    /\ n_sent' = n_sent + 1
    /\ last_sent' = Sent(outcome.status)
    /\ http_pc' = "raised"
    /\ http_exc' = e
    /\ UNCHANGED <<attempt, last_exception, waits>>

\* The loop bound off by one: range(retry_attempts - 1).
RetryExhaustedEarly ==
    /\ http_pc = "attempt"
    /\ attempt >= retry_attempts - 1
    /\ http_pc' = "raised"
    /\ http_exc' = handle_trino_error(
                       IF last_exception # NoException
                       THEN last_exception
                       ELSE Exc("RuntimeError",
                                {"Request failed after multiple retries"}))
    /\ UNCHANGED <<attempt, last_exception, waits, n_sent, last_sent>>

\* The loop is over without a return: line 224.
RetryExhausted ==
    /\ http_pc = "attempt"
    /\ attempt = retry_attempts
    /\ http_pc' = "raised"
    /\ http_exc' = handle_trino_error(
                       IF last_exception # NoException
                       THEN last_exception
                       ELSE Exc("RuntimeError",
                                {"Request failed after multiple retries"}))
    /\ UNCHANGED <<attempt, last_exception, waits, n_sent, last_sent>>

(***************************************************************************)
(* The engine: what a response body can hold.                              *)
(***************************************************************************)
NoUri == ""

\* A continuation link; submit_query tells one the pattern
\* /v1/query/([^/]+)/ matches from one it does not match.
Uris == {"/v1/query/q1/results/1", "/v1/statement/executing/q1/1"}

\* To a method that only tests for the link, or hands it on as it is, one
\* link is like another.
AnyUri == "/v1/statement/executing/q1/1"

TypeTags ==
    { "SYNTAX_ERROR", "RESOURCE_ERROR", "INSUFFICIENT_RESOURCES",
      "PERMISSION_DENIED", "ACCESS_DENIED", "USER_ERROR" }

\* errorType: one of the tags, or the field is missing ("" by .get)
ErrorTypes == {{}} \cup {{t} : t \in TypeTags}

\* errorName is read into the message of one branch only, which looks for
\* none of its text.
ErrorNames == {{"TABLE_NOT_FOUND"}}

\* The messages made of at most n fragments.
RECURSIVE Messages(_)
Messages(n) ==
    IF n = 0 THEN {{}}
    ELSE LET shorter == Messages(n - 1)
         IN  shorter \cup {m \cup {f} : m \in shorter, f \in Fragments}

\* The error object has no "message".
NoMessage == {"(no message)"}

\* message: up to MaxErrFrags fragments, or the field is missing
ErrorMessages == Messages(MaxErrFrags) \cup {NoMessage}

\* error_info.get("message", default)
GetMessage(info, default) ==
    IF info.message = NoMessage THEN {default} ELSE info.message

NoError == [present |-> FALSE, errorType |-> {}, errorName |-> {}, message |-> {}]

ErrorObjects ==
    [present : {TRUE}, errorType : ErrorTypes, errorName : ErrorNames,
     message : ErrorMessages]

ColumnLists == {<<>>, <<"_col0">>}

\* The next n rows of the query's result stream, after `sent` rows.
RowsFrom(sent, n) == [i \in 1..n |-> sent + i]

\* An error object for the places that never read "error".
UnreadError ==
    [present |-> TRUE, errorType |-> {"SYNTAX_ERROR"},
     errorName |-> {"TABLE_NOT_FOUND"}, message |-> {"mismatched input"}]

\* A page of results: "columns" (<<>>: none), the number of rows in "data"
\* (0: none, or an empty list, which the client cannot tell apart),
\* "nextUri" (NoUri: none) and "error".  The result stream is finite: after
\* MaxPages continuation pages the engine gives no further link.
\* A page is any combination of the four where the error object, if there
\* is one, is not read (UnreadError stands for it), or it is an error page,
\* of which the client reads the error object and nothing else.
PageBodies ==
    [columns : ColumnLists, ndata : 0..MaxPageRows,
     next : IF pages < MaxPages THEN {AnyUri, NoUri} ELSE {NoUri},
     error : {NoError, UnreadError}]

ErrorPages ==
    [columns : {<<>>}, ndata : {0}, next : {NoUri}, error : ErrorObjects]

\* The response to a statement as submit_query reads it: whether "id" is
\* there, "nextUri" and "error".
\* The "id" of a submission response: the key is missing, or its value is
\* empty, or it names the query.
IdFields == {Absent, "", "q2"}

SubmitBodies ==
    [id : IdFields, next : Uris \cup {NoUri},
     error : ErrorObjects \cup {NoError}]

\* re.search(r'/v1/query/([^/]+)/', uri): group 1 of the match, or no match.
LinkId(uri) == IF uri = "/v1/query/q1/results/1" THEN "q1" ELSE Absent

\* The link searched first, the id field used only when it gives nothing.
QueryIdLinkFirst(b) ==
    IF b.next # NoUri /\ LinkId(b.next) # Absent THEN LinkId(b.next) ELSE b.id

\* submit_query lines 336-342: query_id after the two attempts to find it.
QueryIdOf(b) ==
    IF b.id \in {Absent, ""} /\ b.next # NoUri /\ LinkId(b.next) # Absent
    THEN LinkId(b.next)
    ELSE b.id

NativeStates ==
    { "QUEUED", "PLANNING", "RUNNING", "FINISHED", "FAILED", "CANCELED",
      "UNKNOWN" }

\* A /v1/query/{id} response: "state" ("UNKNOWN": the field is missing),
\* "error", "nextUri", and whether outputStage has a "self" link.
\* get_query_status reads the state and hands the error on, which its
\* caller reads for a FAILED query only.
StatusBodies ==
    [state : {"FAILED"}, error : ErrorObjects \cup {NoError},
     next : {NoUri}, self : {FALSE}]
    \cup [state : NativeStates \ {"FAILED"}, error : {NoError, UnreadError},
          next : {NoUri}, self : {FALSE}]

\* The second read of the query info, of which get_query_results reads the
\* links only.
InfoBodies ==
    [state : NativeStates, error : {NoError}, next : {AnyUri, NoUri},
     self : BOOLEAN]

\* get_query_results has not read the query info.
NoInfo == [state |-> "none", error |-> NoError, next |-> NoUri, self |-> FALSE]

(***************************************************************************)
(* trino_client.py: the client methods.                                    *)
(***************************************************************************)
Last(seq) == seq[Len(seq)]

\* An exception passing n handlers of the form
\* `except Exception as e: raise handle_trino_error(e)`.
RECURSIVE Propagate(_, _)
Propagate(trail, n) ==
    IF n = 0 THEN trail
    ELSE Propagate(Append(trail, handle_trino_error(Last(trail))), n - 1)

\* The request ends with exception x raised inside a client method, n
\* handlers below the endpoint; main.py answers with exc.to_dict().
Fail(x, n) ==
    /\ err_trail' = Propagate(<<x>>, n)
    /\ response' = [kind |-> "error", error |-> Last(err_trail')]
    /\ pc' = "responded"
    /\ rows' = <<>>
    /\ columns' = <<>>
    /\ has_next' = FALSE
    /\ next_token' = NoUri
    /\ status_state' = "UNKNOWN"
    /\ results_url' = "none"
    /\ max_rows' = 0
    /\ served' = 0
    /\ pages' = 0

\* The request ends with the client method returning.
Return ==
    /\ response' = [kind |-> "result", error |-> NoException]
    /\ pc' = "responded"
    /\ UNCHANGED err_trail

\* execute_query lines 253-270: the exception raised for an error object in
\* the first response.
FirstResponseError(info) ==
    LET error_message == GetMessage(info, "Unknown Trino error") IN
    IF "SYNTAX_ERROR" \in info.errorType
    THEN handle_trino_error(Exc("Exception", {"Syntax error: "} \cup error_message))
    ELSE IF "RESOURCE_ERROR" \in info.errorType
    THEN handle_trino_error(Exc("Exception", {"Resource error: "} \cup error_message))
    ELSE IF "INSUFFICIENT_RESOURCES" \in info.errorType
    THEN handle_trino_error(
             Exc("Exception", {"Insufficient resources: "} \cup error_message))
    ELSE IF "PERMISSION_DENIED" \in info.errorType
    THEN handle_trino_error(Exc("Exception", {"Permission denied: "} \cup error_message))
    ELSE IF "ACCESS_DENIED" \in info.errorType
    THEN Exc("TrinoAuthError", {"Access denied: "} \cup error_message)
    ELSE handle_trino_error(
             Exc("Exception", info.errorType \cup info.errorName \cup error_message))

\* execute_query lines 287-291 and submit_query lines 329-333:
\* f"{error_type}: {error_message}"
FollowUpError(info) ==
    handle_trino_error(
        Exc("Exception",
            info.errorType \cup GetMessage(info, "Unknown Trino error")))

\* execute_query lines 239-270: the first response.
ExecFirst ==
    /\ pc = "exec_first"
    /\ \E b \in PageBodies \cup ErrorPages :
        /\ HttpOk
        /\ error_info' = b.error
        /\ stream_error' = b.error.present
        /\ IF b.error.present
           THEN Fail(FirstResponseError(b.error), 2)
           ELSE /\ pc' = "exec_loop"
                /\ columns' = b.columns
                /\ rows' = rows \o RowsFrom(served, b.ndata)
                /\ has_next' = (b.next # NoUri)
                /\ served' = served + b.ndata
                /\ UNCHANGED <<next_token, status_state, results_url,
                               err_trail, response, max_rows, pages>>
    /\ UNCHANGED <<clientVars, classVars, endpointVars, principal, method>>

\* The while loop without its `len(rows) < max_rows` test.
ExecLoopIgnoresCap ==
    /\ pc = "exec_loop"
    /\ IF has_next
       THEN /\ HttpBegin
            /\ pc' = "exec_page"
            /\ UNCHANGED opVars
       ELSE /\ Return
            /\ UNCHANGED <<httpVars, rows, columns, has_next, next_token,
                           status_state, error_info, results_url,
                           stream_error, served, pages>>
    /\ UNCHANGED <<clientVars, classVars, endpointVars, principal, method,
                   max_rows>>

\* execute_query line 273: the test of the while loop, then either the GET
\* of line 274 or the return of line 300.
ExecLoop ==
    /\ pc = "exec_loop"
    /\ IF has_next /\ Len(rows) < max_rows
       THEN /\ HttpBegin
            /\ pc' = "exec_page"
            /\ UNCHANGED opVars
       ELSE /\ Return
            /\ UNCHANGED <<httpVars, rows, columns, has_next, next_token,
                           status_state, error_info, results_url,
                           stream_error, served, pages>>
    /\ UNCHANGED <<clientVars, classVars, endpointVars, principal, method,
                   max_rows>>

\* execute_query lines 275-298: one continuation page.
ExecPage ==
    /\ pc = "exec_page"
    /\ \E b \in PageBodies \cup ErrorPages :
        LET more == rows \o RowsFrom(served, b.ndata) IN
        /\ HttpOk
        /\ stream_error' = (stream_error \/ b.error.present)
        /\ IF b.ndata > 0 /\ Len(more) >= max_rows
           THEN /\ rows' = SubSeq(more, 1, max_rows)
                /\ columns' = IF b.columns # <<>> /\ columns = <<>>
                              THEN b.columns ELSE columns
                /\ has_next' = (b.next # NoUri)
                /\ served' = served + b.ndata
                /\ pages' = pages + 1
                /\ Return
                /\ UNCHANGED <<next_token, status_state, error_info,
                               results_url, max_rows>>
           ELSE IF b.error.present
           THEN /\ error_info' = b.error
                /\ Fail(FollowUpError(b.error), 2)
           ELSE /\ rows' = more
                /\ columns' = IF b.columns # <<>> /\ columns = <<>>
                              THEN b.columns ELSE columns
                /\ has_next' = (b.next # NoUri)
                /\ served' = served + b.ndata
                /\ pages' = pages + 1
                /\ IF b.next = NoUri
                   THEN Return
                   ELSE /\ pc' = "exec_loop"
                        /\ UNCHANGED <<err_trail, response>>
                /\ UNCHANGED <<next_token, status_state, error_info,
                               results_url, max_rows>>
    /\ UNCHANGED <<clientVars, classVars, endpointVars, principal, method>>

\* submit_query lines 326-347.  The id comes from "id", else from a nextUri
\* the pattern matches.
SubmitResponse ==
    /\ pc = "submit"
    /\ \E b \in SubmitBodies :
        /\ HttpOk
        /\ error_info' = b.error
        /\ UNCHANGED stream_error
        /\ IF b.error.present
           THEN Fail(FollowUpError(b.error), 2)
           ELSE IF QueryIdOf(b) \notin {Absent, ""}
           THEN /\ Return
                /\ UNCHANGED <<rows, columns, has_next, next_token,
                               status_state, results_url, max_rows, served,
                               pages>>
           ELSE Fail(Exc("TrinoQueryError",
                         {"Failed to extract query ID from response"}), 2)
    /\ UNCHANGED <<clientVars, classVars, endpointVars, principal, method>>

\* get_query_results lines 394-402: get_query_status (lines 364-376) has
\* its response, and the state it reports is tested.
ResultsStatus ==
    /\ pc = "res_status"
    /\ \E b \in StatusBodies :
        /\ HttpOk
        /\ UNCHANGED stream_error
        /\ IF b.state \notin {"FINISHED", "RUNNING"}
           THEN /\ error_info' = b.error
                /\ IF b.state = "FAILED" /\ b.error.present
                   THEN Fail(handle_trino_error(
                                 Exc("Exception",
                                     {"Query failed: "}
                                     \cup GetMessage(b.error, "Unknown error"))), 2)
                   ELSE IF b.state = "CANCELED"
                   THEN Fail(Exc("TrinoQueryError", {"Query was canceled"}), 2)
                   ELSE Fail(Exc("TrinoQueryError",
                                 {"Query is not ready yet. Current state: ",
                                  b.state}), 2)
           ELSE /\ status_state' = b.state
                /\ pc' = "res_checked"
                /\ UNCHANGED <<rows, columns, has_next, next_token,
                               error_info, results_url, err_trail, response,
                               max_rows, served, pages>>
    /\ UNCHANGED <<clientVars, classVars, endpointVars, principal, method>>

\* get_query_results line 407 (the second GET of the query info) and line
\* 437 (the GET of the first page of results).
ResultsBegin ==
    /\ pc \in {"res_checked", "res_located"}
    /\ HttpBegin
    /\ pc' = IF pc = "res_checked" THEN "res_info" ELSE "res_first"
    \* query_info is not read after line 425
    /\ query_info' = NoInfo
    /\ UNCHANGED <<clientVars, classVars, inflight, wire, scopeVars,
                   dispatchVars, envelopeVars, bridgeVars, pathVars,
                   lifecycleVars, sessionVars, loopVars, principal, method,
                   max_rows, opVars>>

\* The two links of a finished query tried in the other order.
ResultsUrlNextUriFirst(state, info) ==
    LET next_uri ==
            IF info.next # NoUri THEN "nextUri"
            ELSE IF state # "RUNNING" /\ info.self THEN "outputStage.self/results"
            ELSE "none"
    IN  IF next_uri = "none" THEN "base_url/v1/query/id/results" ELSE next_uri

\* get_query_results lines 408-429: where the results are fetched from.
ResultsUrl(state, info) ==
    LET next_uri ==
            IF state = "RUNNING"
            THEN (IF info.next # NoUri THEN "nextUri" ELSE "none")
            ELSE IF info.self THEN "outputStage.self/results"
            ELSE IF info.next # NoUri THEN "nextUri"
            ELSE "none"
    IN  IF next_uri = "none" THEN "base_url/v1/query/id/results" ELSE next_uri

ResultsInfo ==
    /\ pc = "res_info"
    /\ \E b \in InfoBodies :
        /\ HttpOk
        /\ query_info' = b
        /\ results_url' = ResultsUrl(status_state, b)
    /\ pc' = "res_located"
    /\ UNCHANGED <<clientVars, classVars, inflight, wire, scopeVars,
                   dispatchVars, envelopeVars, bridgeVars, pathVars,
                   lifecycleVars, sessionVars, loopVars, principal, method,
                   max_rows, rows, columns, has_next, next_token,
                   status_state, error_info, stream_error, served, pages,
                   err_trail, response>>

\* get_query_results lines 438-448: the first page of results.
ResultsFirst ==
    /\ pc = "res_first"
    /\ \E b \in PageBodies :
        LET first == rows \o RowsFrom(served, b.ndata) IN
        /\ HttpOk
        /\ stream_error' = b.error.present
        /\ served' = served + b.ndata
        /\ columns' = b.columns
        /\ rows' = first
        /\ has_next' = (b.next # NoUri)
        /\ IF b.next # NoUri /\ Len(first) < max_rows
           THEN /\ next_token' = b.next
                /\ pc' = "res_loop"
                /\ UNCHANGED <<err_trail, response>>
           ELSE /\ next_token' = NoUri
                /\ Return
    /\ UNCHANGED <<clientVars, classVars, endpointVars, principal, method,
                   max_rows, status_state, error_info, results_url, pages>>

\* get_query_results line 451: the test of the while loop, then either the
\* GET of line 452 or the return of line 466.
ResultsLoop ==
    /\ pc = "res_loop"
    /\ IF next_token # NoUri /\ Len(rows) < max_rows
       THEN /\ HttpBegin
            /\ pc' = "res_page"
            /\ UNCHANGED opVars
       ELSE /\ Return
            /\ UNCHANGED <<httpVars, rows, columns, has_next, next_token,
                           status_state, error_info, results_url,
                           stream_error, served, pages>>
    /\ UNCHANGED <<clientVars, classVars, endpointVars, principal, method,
                   max_rows>>

\* get_query_results lines 453-464: one continuation page.
ResultsPage ==
    /\ pc = "res_page"
    /\ \E b \in PageBodies :
        LET more == rows \o RowsFrom(served, b.ndata) IN
        /\ HttpOk
        /\ stream_error' = (stream_error \/ b.error.present)
        /\ served' = served + b.ndata
        /\ pages' = pages + 1
        /\ has_next' = (b.next # NoUri)
        /\ IF b.ndata > 0 /\ Len(more) > max_rows
           THEN /\ rows' = SubSeq(more, 1, max_rows)
                /\ Return
                /\ UNCHANGED next_token
           ELSE /\ rows' = more
                /\ next_token' = b.next
                /\ pc' = "res_loop"
                /\ UNCHANGED <<err_trail, response>>
    /\ UNCHANGED <<clientVars, classVars, endpointVars, principal, method,
                   max_rows, columns, status_state, error_info, results_url>>

\* The client methods a request can be in, with the number of
\* `except Exception as e: raise handle_trino_error(e)` handlers between
\* the _request_with_retry call and the endpoint: the method's own and the
\* RPC handler's, and get_query_status's too when get_query_results calls it.
Handlers(at) == IF at = "res_status" THEN 3 ELSE 2

\* _request_with_retry raised: the exception leaves the client method
\* through its handlers.
\* What the processing of a 2xx response raises when the body is not what
\* the client expects: response.json() on a body that is not JSON, and
\* col["name"] on a column entry without a name.
UnexpectedExceptions ==
    { Exc("JSONDecodeError", {"Expecting value: line 1 column 1 (char 0)"}),
      Exc("KeyError", {"'name'"}) }

\* A 2xx response whose body breaks the client method that reads it: the
\* exception is raised inside the method's try block and passes the
\* handlers of the method and of the RPC handler.
MalformedResponse ==
    /\ pc \in {"exec_first", "exec_page", "submit", "res_status", "res_info",
               "res_first", "res_page"}
    /\ HttpOk
    /\ \E x \in UnexpectedExceptions : Fail(x, Handlers(pc))
    /\ UNCHANGED <<clientVars, classVars, endpointVars, principal, method,
                   error_info, stream_error>>

ClientHttpFail ==
    /\ pc \in {"exec_first", "exec_page", "submit", "res_status", "res_info",
               "res_first", "res_page"}
    /\ http_pc = "raised"
    /\ Fail(http_exc, Handlers(pc))
    /\ UNCHANGED <<clientVars, httpVars, classVars, endpointVars, principal,
                   method, error_info, stream_error>>

(***************************************************************************)
(* rpc.py and main.py: the /mcp endpoint and the RPC handlers.             *)
(***************************************************************************)
\* The callers of the requests handled one after the other.
Callers == {"alice"}

Methods == {"run_query_sync", "run_query_async", "get_query_results", "foo"}

\* rpc.py lines 211-220: the registered method names.
METHOD_TABLE ==
    {"list_catalogs", "run_query_sync", "run_query_async", "get_query_status",
     "get_query_results", "list_schemas", "list_tables", "get_table_schema"}

\* The keys a handler requires, in the order it checks them.
Required(m) ==
    CASE m = "list_catalogs" -> <<>>
      [] m \in {"run_query_sync", "run_query_async"} -> <<"sql">>
      [] m \in {"get_query_status", "get_query_results"} -> <<"queryId">>
      [] m = "list_schemas" -> <<"catalog">>
      [] m = "list_tables" -> <<"catalog", "schema">>
      [] m = "get_table_schema" -> <<"catalog", "schema", "table">>

\* The handlers that read params.get("maxRows", 100).
TakesMaxRows(m) == m \in {"run_query_sync", "get_query_results"}

\* The client method a handler runs in a worker thread.
ClientMethod(m) ==
    CASE m = "list_catalogs" -> "list_catalogs"
      [] m = "run_query_sync" -> "execute_query"
      [] m = "run_query_async" -> "submit_query"
      [] m = "get_query_status" -> "get_query_status"
      [] m = "get_query_results" -> "get_query_results"
      [] m = "list_schemas" -> "list_schemas"
      [] m = "list_tables" -> "list_tables"
      [] m = "get_table_schema" -> "get_table_schema"

ParamKeys == {"sql", "queryId", "catalog", "schema", "table"}

\* A required parameter: missing, not a string, blank, or good.
TextParams == {"missing", "notstring", "blank", "good"}

\* The "maxRows" parameter: missing; not an int (a string, a float, null);
\* a bool, False as 0 and True as 1; or an int.  A bool is an instance of
\* int, and False <= 0 while True > 0.
MaxRowsParams ==
    [kind : {"absent", "notint"}, value : {0}]
    \cup [kind : {"bool"}, value : {0, 1}]
    \cup [kind : {"int"}, value : 0..MaxRows]

\* The params of a request: a dict (main.py lines 154 and 222), with each
\* key of ParamKeys as given and maxRows as given.
NoParams == [keys |-> [k \in ParamKeys |-> "missing"],
             maxRows |-> [kind |-> "absent", value |-> 0]]

\* No handler and no client method has been called.
NothingCalled ==
    [handler |-> "none", client |-> "none", args |-> <<>>, max_rows |-> 0]

\* `not isinstance(max_rows, int) or max_rows <= 0`
BadMaxRows(maxrows) ==
    \/ maxrows.kind = "notint"
    \/ (maxrows.kind \in {"bool", "int"} /\ maxrows.value <= 0)

\* The checks of the required keys from the i-th on, then of maxRows: "ok"
\* or the message of the InvalidParams raised by the first check that
\* fails.
RECURSIVE CheckFrom(_, _, _)
CheckFrom(m, p, i) ==
    IF i > Len(Required(m))
    THEN IF TakesMaxRows(m) /\ BadMaxRows(p.maxRows)
         THEN {"maxRows", " must be a positive integer"}
         ELSE {"ok"}
    ELSE LET key == Required(m)[i] IN
         IF p.keys[key] = "missing"
         THEN {"Missing required parameter: ", key}
         ELSE IF p.keys[key] \in {"notstring", "blank"}
         THEN {key, " parameter must be a non-empty string"}
         ELSE CheckFrom(m, p, i + 1)

\* rpc.py: the validation a handler does before it touches the client.
CheckParams(m, p) == CheckFrom(m, p, 1)

\* The validation of run_query_sync, run_query_async and get_query_results
\* for params whose required key is as `text` says and whose maxRows is as
\* `maxrows` says.
Validate(m, text, maxrows) ==
    CheckParams(m, [keys |-> [k \in ParamKeys |->
                                 IF k = Required(m)[1] THEN text ELSE "missing"],
                    maxRows |-> maxrows])

\* params.get("maxRows", 100)
MaxRowsArg(maxrows) ==
    IF maxrows.kind = "absent" THEN DefaultMaxRows ELSE maxrows.value

\* The first pc of the client method an RPC method calls.
FirstPc(m) ==
    CASE m = "run_query_sync" -> "exec_first"
      [] m = "run_query_async" -> "submit"
      [] m = "get_query_results" -> "res_status"

ClearLocals ==
    /\ rows' = <<>>
    /\ columns' = <<>>
    /\ has_next' = FALSE
    /\ next_token' = NoUri
    /\ status_state' = "UNKNOWN"
    /\ error_info' = NoError
    /\ stream_error' = FALSE
    /\ results_url' = "none"
    /\ served' = 0
    /\ pages' = 0

\* The handlers with their validation moved after a first use of the
\* client: a request has gone to the engine when InvalidParams is raised.
McpRequestValidatesLate(u, m, text, maxrows) ==
    /\ pc = "idle"
    /\ principal' = u
    /\ method' = m
    /\ user' = u
    /\ ClearLocals
    /\ UNCHANGED <<retry_attempts, retry_delay, http_headers, classVars,
                   endpointVars>>
    /\ IF m \notin METHOD_TABLE
       THEN /\ err_trail' = <<Exc("MethodNotFound", {"Method '", m, "' not found"})>>
            /\ response' = [kind |-> "error", error |-> err_trail'[1]]
            /\ pc' = "responded"
            /\ max_rows' = 0
            /\ UNCHANGED httpVars
       ELSE IF Validate(m, text, maxrows) # {"ok"}
       THEN /\ err_trail' = <<Exc("InvalidParams", Validate(m, text, maxrows))>>
            /\ response' = [kind |-> "error", error |-> err_trail'[1]]
            /\ pc' = "responded"
            /\ max_rows' = 0
            /\ last_sent' = [status |-> "200", user |-> u]
            /\ UNCHANGED <<http_pc, attempt, last_exception, waits, n_sent,
                           http_exc>>
       ELSE /\ err_trail' = <<>>
            /\ response' = [kind |-> "none", error |-> NoException]
            /\ pc' = FirstPc(m)
            /\ max_rows' = IF m = "run_query_async" THEN 0 ELSE MaxRowsArg(maxrows)
            /\ HttpBegin

\* main.py lines 174-222 and rpc.py: a request of principal u arrives; the
\* endpoint stores u in the shared client's user field, dispatch_rpc looks
\* the method up, the handler validates the parameters and calls the client
\* method in a worker thread, which enters _request_with_retry.
McpRequest(u, m, text, maxrows) ==
    /\ pc = "idle"
    /\ principal' = u
    /\ method' = m
    /\ user' = u
    /\ ClearLocals
    /\ UNCHANGED <<retry_attempts, retry_delay, http_headers, classVars,
                   endpointVars>>
    /\ IF m \notin METHOD_TABLE
       THEN /\ err_trail' = <<Exc("MethodNotFound", {"Method '", m, "' not found"})>>
            /\ response' = [kind |-> "error", error |-> err_trail'[1]]
            /\ pc' = "responded"
            /\ max_rows' = 0
            /\ UNCHANGED httpVars
       ELSE IF Validate(m, text, maxrows) # {"ok"}
       THEN /\ err_trail' = <<Exc("InvalidParams", Validate(m, text, maxrows))>>
            /\ response' = [kind |-> "error", error |-> err_trail'[1]]
            /\ pc' = "responded"
            /\ max_rows' = 0
            /\ UNCHANGED httpVars
       ELSE /\ err_trail' = <<>>
            /\ response' = [kind |-> "none", error |-> NoException]
            /\ pc' = FirstPc(m)
            /\ max_rows' = IF m = "run_query_async" THEN 0 ELSE MaxRowsArg(maxrows)
            /\ HttpBegin

Request ==
    \E u \in Callers, m \in Methods, text \in TextParams,
       maxrows \in MaxRowsParams : McpRequest(u, m, text, maxrows)

\* main.py lines 223-247: the response is sent; the request is over.
Respond ==
    /\ pc = "responded"
    /\ pc' = "idle"
    /\ principal' = "anonymous"
    /\ method' = "none"
    /\ max_rows' = 0
    /\ ClearLocals
    /\ err_trail' = <<>>
    /\ response' = [kind |-> "none", error |-> NoException]
    /\ http_pc' = "idle"
    /\ attempt' = 0
    /\ last_exception' = NoException
    /\ waits' = <<>>
    /\ n_sent' = 0
    /\ http_exc' = NoException
    /\ last_sent' = NothingSent
    /\ UNCHANGED <<clientVars, classVars, endpointVars>>

\* One attempt of the _request_with_retry call in progress fails.
HttpAttemptCaught ==
    /\ \E outcome \in FailedOutcomes : AttemptCaught(outcome)
    /\ UNCHANGED <<clientVars, classVars, endpointVars, reqVars, opVars>>

HttpAttemptUncaught ==
    /\ \E outcome \in FailedOutcomes : AttemptUncaught(outcome)
    /\ UNCHANGED <<clientVars, classVars, endpointVars, reqVars, opVars>>

HttpGivesUp ==
    /\ RetryExhausted
    /\ UNCHANGED <<clientVars, classVars, endpointVars, reqVars, opVars>>

ClassIdle ==
    /\ cls_input = NoException
    /\ cls_chain = <<>>

NoTask == [at |-> "none", trino_user |-> "none"]

Tasks == {1, 2}

\* The id of a request: none, null, a string, an integer, or a JSON value
\* of another type.
RequestIds == {"absent", "null", "'abc'", "7", "[7]"}

\* `id: str | int | None`
EnvelopeIds == {"null", "'abc'", "7"}

\* How dispatch_rpc ends: it returns a result or raises an MCPError.  Every
\* handler wraps what its client call raises with handle_trino_error, so
\* nothing else leaves it.
Outcomes == {"result"} \cup MCPClasses

\* A POST to /mcp: whether authentication is off, passed or not passed;
\* the body, which is not JSON, a JSON array, or a JSON object with the
\* fields as given; and how the dispatch of its method would end.
Requests ==
    [auth : {"off", "ok", "missing"}, body : {"object"}, id : RequestIds,
     jsonrpc : {"absent", "1.0", "2.0"}, method : {"absent", "string"},
     params : {"absent", "dict", "array"}, outcome : Outcomes]
    \cup [auth : {"off", "ok", "missing"}, body : {"garbage", "array"},
          id : {"absent"}, jsonrpc : {"absent"}, method : {"absent"},
          params : {"absent"}, outcome : {"result"}]

NoRequest ==
    [auth |-> "off", body |-> "none", id |-> "absent", jsonrpc |-> "absent",
     method |-> "absent", params |-> "absent", outcome |-> "result"]

NoReply ==
    [status |-> 0, shape |-> "none", id |-> "none", has_result |-> FALSE,
     has_error |-> FALSE, code |-> 0]

\* JSONResponse(status_code=..., content={"jsonrpc": "2.0", "error": ...,
\* "id": ...})
ErrorReply(status, id, code) ==
    [status |-> status, shape |-> "jsonrpc", id |-> id, has_result |-> FALSE,
     has_error |-> TRUE, code |-> code]

\* RPCEnvelope.model_validate(payload) passes: jsonrpc and method are
\* strings, id is a string, an integer or null and is present, params is a
\* dict or null or is left out.
SchemaOk(r) ==
    /\ r.id \in EnvelopeIds
    /\ r.jsonrpc # "absent"
    /\ r.method = "string"
    /\ r.params # "array"

\* main.py lines 157-247: the response to request r.
mcp_endpoint(r) ==
    IF r.auth = "missing"
    THEN ErrorReply(401, "null", TRINO_AUTH_ERROR)
    ELSE IF r.body = "garbage"
    THEN ErrorReply(400, "null", PARSE_ERROR)
    ELSE IF r.body = "array"
    THEN \* model_validate raises ValidationError and payload.get("id")
         \* raises AttributeError, which nothing catches: the framework
         \* answers 500 with a plain body
         [status |-> 500, shape |-> "plain", id |-> "none",
          has_result |-> FALSE, has_error |-> FALSE, code |-> 0]
    ELSE IF ~SchemaOk(r)
    THEN ErrorReply(400, IF r.id = "absent" THEN "null" ELSE r.id,
                    INVALID_REQUEST)
    ELSE IF r.jsonrpc # "2.0"
    THEN ErrorReply(400, r.id, INVALID_REQUEST)
    ELSE IF r.outcome = "result"
    THEN [status |-> 200, shape |-> "jsonrpc", id |-> r.id,
          has_result |-> TRUE, has_error |-> FALSE, code |-> 0]
    ELSE IF r.outcome \in MCPClasses
    THEN ErrorReply(200, r.id, ErrorCode(r.outcome))
    ELSE IF r.outcome = "KeyError"
    THEN ErrorReply(200, r.id, METHOD_NOT_FOUND)
    ELSE ErrorReply(200, r.id, INTERNAL_ERROR)

NoQuery == [state |-> "NONE", fate |-> "none"]

NoBody == [id |-> Absent, next |-> NoUri, error |-> NoError]

NoResult == [kind |-> "none", query_id |-> Absent, error |-> NoException]

NothingObserved == [last |-> "none", terminal |-> "none", error |-> "None"]

\* The client of main.py: configure_client passes no session_properties.
SessionIdle ==
    /\ session_properties = <<>>
    /\ session_header = Absent
    /\ wire_session = "none"

NoCoro == [serves |-> "none", at |-> "none", io |-> "none"]

\* No inbound request is being handled.
LoopIdle ==
    /\ coros = [t \in Tasks |-> NoCoro]
    /\ loop_holder = 0

InfoIdle == query_info = NoInfo

NoPathResult == [columns |-> <<>>, rows |-> <<>>, nextToken |-> 0, done |-> FALSE]

\* Neither path has been given pages to read.
PathsIdle ==
    /\ page_seq = <<>>
    /\ path_max_rows = 0
    /\ sync_result = NoPathResult
    /\ async_result = NoPathResult

\* The bridge as the loop of line 39 is entered: lines 16-33 import,
\* configure logging and define _error, and write nothing to stdout.
BridgeIdle ==
    /\ bridge_in = 0
    /\ bridge_out = <<>>

LifecycleIdle ==
    /\ engine = NoQuery
    /\ submitted = [answered |-> FALSE, body |-> NoBody, result |-> NoResult]
    /\ observed = NothingObserved
    /\ cancel_result = "none"

NoCall ==
    [at |-> "none", op |-> "none", catalog |-> Absent, schema |-> Absent,
     original_catalog |-> Absent, original_schema |-> Absent,
     before |-> <<Absent, Absent>>, sent |-> <<Absent, Absent>>,
     failed |-> FALSE]

EndpointIdle ==
    /\ inflight = [t \in Tasks |-> NoTask]
    /\ wire = {}
    /\ calls = [t \in Tasks |-> NoCall]
    /\ scope0 = <<Absent, Absent>>
    /\ params = NoParams
    /\ called = NothingCalled
    /\ request = NoRequest
    /\ reply = NoReply
    /\ LifecycleIdle
    /\ BridgeIdle
    /\ PathsIdle
    /\ InfoIdle
    /\ LoopIdle
    /\ SessionIdle

RequestIdle ==
    /\ pc = "idle"
    /\ principal = "anonymous"
    /\ method = "none"
    /\ max_rows = 0
    /\ rows = <<>>
    /\ columns = <<>>
    /\ has_next = FALSE
    /\ next_token = NoUri
    /\ status_state = "UNKNOWN"
    /\ error_info = NoError
    /\ stream_error = FALSE
    /\ results_url = "none"
    /\ served = 0
    /\ pages = 0
    /\ err_trail = <<>>
    /\ response = [kind |-> "none", error |-> NoException]

(***************************************************************************)
(* Spec: the gateway as main.py starts it.  configure_client builds the    *)
(* shared client for TRINO_USER with the default retry policy; requests    *)
(* are handled one after the other.                                        *)
(***************************************************************************)
Init ==
    /\ ClientInit("mcp-client", DefaultRetryAttempts, DefaultRetryDelay)
    /\ HttpIdle
    /\ ClassIdle
    /\ RequestIdle
    /\ EndpointIdle

Next ==
    \/ Request
    \/ Respond
    \/ HttpAttemptCaught
    \/ HttpAttemptUncaught
    \/ HttpGivesUp
    \/ ClientHttpFail
    \/ MalformedResponse
    \/ ExecFirst
    \/ ExecLoop
    \/ ExecPage
    \/ SubmitResponse
    \/ ResultsStatus
    \/ ResultsBegin
    \/ ResultsInfo
    \/ ResultsFirst
    \/ ResultsLoop
    \/ ResultsPage

Spec == Init /\ [][Next]_vars

(***************************************************************************)
(* SpecExecute: one execute_query call, as run_query_sync makes it in a    *)
(* worker thread, with any row cap.  The thread keeps running, so a step   *)
(* that can be taken is taken in the end.                                  *)
(***************************************************************************)
InitExecute ==
    /\ ClientInit("mcp-client", DefaultRetryAttempts, DefaultRetryDelay)
    /\ http_pc = "attempt"
    /\ attempt = 0
    /\ last_exception = NoException
    /\ waits = <<>>
    /\ n_sent = 0
    /\ http_exc = NoException
    /\ last_sent = NothingSent
    /\ ClassIdle
    /\ EndpointIdle
    /\ pc = "exec_first"
    /\ principal = "anonymous"
    /\ method = "run_query_sync"
    /\ max_rows \in (1..MaxRows) \cup {DefaultMaxRows}
    /\ rows = <<>>
    /\ columns = <<>>
    /\ has_next = FALSE
    /\ next_token = NoUri
    /\ status_state = "UNKNOWN"
    /\ error_info = NoError
    /\ stream_error = FALSE
    /\ results_url = "none"
    /\ served = 0
    /\ pages = 0
    /\ err_trail = <<>>
    /\ response = [kind |-> "none", error |-> NoException]

NextExecute ==
    \/ ExecFirst
    \/ ExecLoop
    \/ ExecPage
    \/ HttpAttemptCaught
    \/ HttpAttemptUncaught
    \/ HttpGivesUp
    \/ ClientHttpFail

SpecExecute == InitExecute /\ [][NextExecute]_vars /\ WF_vars(NextExecute)

(***************************************************************************)
(* SpecRetry: one _request_with_retry call of a client constructed with    *)
(* any retry_attempts and retry_delay.                                     *)
(***************************************************************************)
InitRetry ==
    /\ \E n \in 0..MaxAttempts, d \in 1..MaxDelay : ClientInit("mcp-client", n, d)
    /\ http_pc = "attempt"
    /\ attempt = 0
    /\ last_exception = NoException
    /\ waits = <<>>
    /\ n_sent = 0
    /\ http_exc = NoException
    /\ last_sent = NothingSent
    /\ ClassIdle
    /\ RequestIdle
    /\ EndpointIdle

RetryReturns ==
    /\ HttpReturn
    /\ UNCHANGED <<clientVars, classVars, endpointVars, reqVars, opVars>>

RetryCaught ==
    /\ \E outcome \in FailedOutcomes : AttemptCaught(outcome)
    /\ UNCHANGED <<clientVars, classVars, endpointVars, reqVars, opVars>>

RetryUncaught ==
    /\ \E outcome \in FailedOutcomes : AttemptUncaught(outcome)
    /\ UNCHANGED <<clientVars, classVars, endpointVars, reqVars, opVars>>

RetryGivesUp ==
    /\ RetryExhausted
    /\ UNCHANGED <<clientVars, classVars, endpointVars, reqVars, opVars>>

NextRetry ==
    \/ RetryReturns
    \/ RetryCaught
    \/ RetryUncaught
    \/ RetryGivesUp

SpecRetry == InitRetry /\ [][NextRetry]_vars

(***************************************************************************)
(* SpecClassify: handle_trino_error alone, applied to a failure with any   *)
(* message of up to MaxMsgFrags fragments, and then to its own result as   *)
(* the handlers above the first one do.                                    *)
(***************************************************************************)
\* The exceptions handed to the classifier: transport failures and the
\* plain Exceptions the client methods build from an engine error object.
ClassifierInputs ==
    { Exc(cls, msg) : cls \in {"ConnectionError", "Exception"},
                      msg \in Messages(MaxMsgFrags) }

InitClassify ==
    /\ ClientInit("mcp-client", DefaultRetryAttempts, DefaultRetryDelay)
    /\ HttpIdle
    /\ cls_input \in ClassifierInputs
    /\ cls_chain = <<>>
    /\ RequestIdle
    /\ EndpointIdle

\* handle_trino_error(error)
Classify ==
    /\ cls_chain = <<>>
    /\ cls_chain' = <<handle_trino_error(cls_input)>>
    /\ UNCHANGED <<cls_input, clientVars, httpVars, reqVars, opVars,
                   endpointVars>>

\* `except Exception as e: raise handle_trino_error(e)` with e the MCPError
\* an earlier pass returned
Reclassify ==
    /\ cls_chain # <<>>
    /\ Len(cls_chain) < MaxPasses
    /\ cls_chain' = Append(cls_chain, handle_trino_error(Last(cls_chain)))
    /\ UNCHANGED <<cls_input, clientVars, httpVars, reqVars, opVars,
                   endpointVars>>

NextClassify ==
    \/ Classify
    \/ Reclassify

SpecClassify == InitClassify /\ [][NextClassify]_vars

(***************************************************************************)
(* SpecUsers: two /mcp requests handled by concurrent tasks that share the *)
(* process-wide client.  The endpoint runs on the event loop up to the     *)
(* await of the handler, whose client call runs in a worker thread.        *)
(***************************************************************************)
\* get_current_user_optional's username, or "anonymous" for None
Principals == {"alice", "bob", "anonymous"}

\* main.py lines 157-216: the request is authenticated and parsed;
\* trino_user = username or "anonymous".
Authenticate(t, u) ==
    /\ inflight[t].at = "none"
    /\ inflight' = [inflight EXCEPT ![t] = [at |-> "authenticated",
                                            trino_user |-> u]]
    /\ UNCHANGED <<wire, scopeVars, dispatchVars, envelopeVars, bridgeVars,
                   pathVars, infoVars, loopVars, sessionVars, lifecycleVars,
                   clientVars, httpVars, classVars, reqVars, opVars>>

\* main.py line 218: trino_client.get_client().user = trino_user, then the
\* await of dispatch_rpc, whose handler hands the client call to a thread.
SetUser(t) ==
    /\ inflight[t].at = "authenticated"
    /\ user' = inflight[t].trino_user
    /\ inflight' = [inflight EXCEPT ![t].at = "dispatched"]
    /\ UNCHANGED <<wire, scopeVars, dispatchVars, envelopeVars, bridgeVars,
                   pathVars, infoVars, loopVars, sessionVars, lifecycleVars,
                   retry_attempts, retry_delay, http_headers, httpVars,
                   classVars, reqVars, opVars>>

\* trino_client.py lines 199-205: the worker thread of the request sends an
\* HTTP call with headers=self.http_headers.
WorkerSends(t) ==
    /\ inflight[t].at = "dispatched"
    /\ wire' = wire \cup {[principal |-> inflight[t].trino_user,
                           user |-> http_headers["X-Trino-User"]]}
    /\ inflight' = [inflight EXCEPT ![t].at = "sent"]
    /\ UNCHANGED <<scopeVars, dispatchVars, envelopeVars, bridgeVars,
                   pathVars, infoVars, loopVars, sessionVars, lifecycleVars,
                   clientVars, httpVars, classVars, reqVars, opVars>>

\* main.py lines 223-247: the response of the request is sent.
Finish(t) ==
    /\ inflight[t].at = "sent"
    /\ inflight' = [inflight EXCEPT ![t] = NoTask]
    /\ UNCHANGED <<wire, scopeVars, dispatchVars, envelopeVars, bridgeVars,
                   pathVars, infoVars, loopVars, sessionVars, lifecycleVars,
                   clientVars, httpVars, classVars, reqVars, opVars>>

Arrives == \E t \in Tasks, u \in Principals : Authenticate(t, u)

SetsUser == \E t \in Tasks : SetUser(t)

Sends == \E t \in Tasks : WorkerSends(t)

Finishes == \E t \in Tasks : Finish(t)

InitUsers ==
    /\ ClientInit("mcp-client", DefaultRetryAttempts, DefaultRetryDelay)
    /\ HttpIdle
    /\ ClassIdle
    /\ RequestIdle
    /\ EndpointIdle

NextUsers ==
    \/ Arrives
    \/ SetsUser
    \/ Sends
    \/ Finishes

SpecUsers == InitUsers /\ [][NextUsers]_vars

(***************************************************************************)
(* SpecScope and SpecScopes: list_schemas, list_tables and execute_query   *)
(* called on one client by worker threads, one call at a time (SpecScope)  *)
(* or concurrently (SpecScopes).  The client is constructed with or        *)
(* without a catalog and a schema: __init__ gives the headers an entry for *)
(* each one that is a non-empty string (main.py takes them from            *)
(* TRINO_CATALOG and TRINO_SCHEMA).                                        *)
(***************************************************************************)
ScopedOps == {"list_schemas", "list_tables"}

ClientOps == ScopedOps \cup {"execute_query"}

CatalogArgs == {"tpch", "jmx"}

SchemaArgs == {"sf1"}

Scope == <<http_headers["X-Trino-Catalog"], http_headers["X-Trino-Schema"]>>

\* list_schemas line 119, list_tables lines 142-143: the call begins and
\* reads the headers it is going to overwrite.  execute_query overwrites
\* none.
CallEnter(t, op, c, s) ==
    /\ calls[t].at = "none"
    /\ calls' = [calls EXCEPT ![t] =
           [at |-> IF op \in ScopedOps THEN "saved" ELSE "set",
            op |-> op,
            catalog |-> IF op \in ScopedOps THEN c ELSE Absent,
            schema |-> IF op = "list_tables" THEN s ELSE Absent,
            original_catalog |->
                IF op \in ScopedOps THEN http_headers["X-Trino-Catalog"]
                ELSE Absent,
            original_schema |->
                IF op = "list_tables" THEN http_headers["X-Trino-Schema"]
                ELSE Absent,
            before |-> Scope,
            sent |-> <<Absent, Absent>>,
            failed |-> FALSE]]
    /\ UNCHANGED <<scope0, dispatchVars, envelopeVars, bridgeVars, pathVars,
                   infoVars, loopVars, sessionVars, lifecycleVars, inflight,
                   wire, clientVars, httpVars, classVars, reqVars, opVars>>

\* list_schemas line 122, list_tables lines 146-147
CallSet(t) ==
    /\ calls[t].at = "saved"
    /\ http_headers' =
           IF calls[t].op = "list_tables"
           THEN [http_headers EXCEPT !["X-Trino-Catalog"] = calls[t].catalog,
                                     !["X-Trino-Schema"] = calls[t].schema]
           ELSE [http_headers EXCEPT !["X-Trino-Catalog"] = calls[t].catalog]
    /\ calls' = [calls EXCEPT ![t].at = "set"]
    /\ UNCHANGED <<scope0, dispatchVars, envelopeVars, bridgeVars, pathVars,
                   infoVars, loopVars, sessionVars, lifecycleVars, inflight,
                   wire, retry_attempts, retry_delay, user, httpVars,
                   classVars, reqVars, opVars>>

\* execute_query, called at lines 125 and 150 or by itself: its request is
\* sent with headers=self.http_headers as they are then (line 202), and it
\* returns or raises.
CallQuery(t, ok) ==
    /\ calls[t].at = "set"
    /\ calls' = [calls EXCEPT ![t].at = "queried",
                              ![t].sent = Scope,
                              ![t].failed = ~ok]
    /\ UNCHANGED <<scope0, dispatchVars, envelopeVars, bridgeVars, pathVars,
                   infoVars, loopVars, sessionVars, lifecycleVars, inflight,
                   wire, clientVars, httpVars, classVars, reqVars, opVars>>

\* What the finally block leaves in a header whose original value it holds:
\* `if original: headers[key] = original else: headers.pop(key, None)`
Restored(original) == IF original \in {Absent, ""} THEN Absent ELSE original

\* The restore as the last statement of the try block instead of a finally
\* block: it is skipped when the query raises.
CallRestoreOnSuccess(t) ==
    /\ calls[t].at = "queried"
    /\ http_headers' =
           IF calls[t].failed THEN http_headers
           ELSE IF calls[t].op = "list_tables"
           THEN [http_headers EXCEPT
                    !["X-Trino-Catalog"] = Restored(calls[t].original_catalog),
                    !["X-Trino-Schema"] = Restored(calls[t].original_schema)]
           ELSE IF calls[t].op = "list_schemas"
           THEN [http_headers EXCEPT
                    !["X-Trino-Catalog"] = Restored(calls[t].original_catalog)]
           ELSE http_headers
    /\ calls' = [calls EXCEPT ![t].at = "done"]
    /\ UNCHANGED <<scope0, dispatchVars, envelopeVars, bridgeVars, pathVars,
                   infoVars, loopVars, sessionVars, lifecycleVars, inflight,
                   wire, retry_attempts, retry_delay, user, httpVars,
                   classVars, reqVars, opVars>>

\* list_schemas lines 129-134, list_tables lines 154-164: the finally
\* block, after which the call returns or raises.
CallRestore(t) ==
    /\ calls[t].at = "queried"
    /\ http_headers' =
           IF calls[t].op = "list_tables"
           THEN [http_headers EXCEPT
                    !["X-Trino-Catalog"] = Restored(calls[t].original_catalog),
                    !["X-Trino-Schema"] = Restored(calls[t].original_schema)]
           ELSE IF calls[t].op = "list_schemas"
           THEN [http_headers EXCEPT
                    !["X-Trino-Catalog"] = Restored(calls[t].original_catalog)]
           ELSE http_headers
    /\ calls' = [calls EXCEPT ![t].at = "done"]
    /\ UNCHANGED <<scope0, dispatchVars, envelopeVars, bridgeVars, pathVars,
                   infoVars, loopVars, sessionVars, lifecycleVars, inflight,
                   wire, retry_attempts, retry_delay, user, httpVars,
                   classVars, reqVars, opVars>>

\* The caller has the result or the exception; the thread is free again.
CallLeave(t) ==
    /\ calls[t].at = "done"
    /\ calls' = [calls EXCEPT ![t] = NoCall]
    /\ UNCHANGED <<scope0, dispatchVars, envelopeVars, bridgeVars, pathVars,
                   infoVars, loopVars, sessionVars, lifecycleVars, inflight,
                   wire, clientVars, httpVars, classVars, reqVars, opVars>>

InitScope ==
    /\ \E c \in {Absent, "hive"}, s \in {Absent, "default"} :
          /\ http_headers = Headers("mcp-client", c, s)
          /\ scope0 = <<c, s>>
    /\ retry_attempts = DefaultRetryAttempts
    /\ retry_delay = DefaultRetryDelay
    /\ user = "mcp-client"
    /\ HttpIdle
    /\ ClassIdle
    /\ RequestIdle
    /\ inflight = [t \in Tasks |-> NoTask]
    /\ wire = {}
    /\ calls = [t \in Tasks |-> NoCall]
    /\ params = NoParams
    /\ called = NothingCalled
    /\ request = NoRequest
    /\ reply = NoReply
    /\ LifecycleIdle
    /\ BridgeIdle
    /\ PathsIdle
    /\ InfoIdle
    /\ LoopIdle
    /\ SessionIdle

\* A call begins while no other call is running.
EntersAlone ==
    \E t \in Tasks, op \in ClientOps, c \in CatalogArgs, s \in SchemaArgs :
        /\ \A other \in Tasks : calls[other].at = "none"
        /\ CallEnter(t, op, c, s)

\* A call begins, whatever the other threads are doing.
Enters ==
    \E t \in Tasks, op \in ClientOps, c \in CatalogArgs, s \in SchemaArgs :
        CallEnter(t, op, c, s)

Sets == \E t \in Tasks : CallSet(t)

Queries == \E t \in Tasks, ok \in BOOLEAN : CallQuery(t, ok)

Restores == \E t \in Tasks : CallRestore(t)

Leaves == \E t \in Tasks : CallLeave(t)

NextScope ==
    \/ EntersAlone
    \/ Sets
    \/ Queries
    \/ Restores
    \/ Leaves

SpecScope == InitScope /\ [][NextScope]_vars

NextScopes ==
    \/ Enters
    \/ Sets
    \/ Queries
    \/ Restores
    \/ Leaves

SpecScopes == InitScope /\ [][NextScopes]_vars

(***************************************************************************)
(* SpecDispatch: dispatch_rpc taken alone, called once with any method     *)
(* name and any params.                                                    *)
(***************************************************************************)
\* Names no handler is registered under; lookup is by exact name.
UnregisteredNames == {"foo", "List_Catalogs", ""}

\* The params a request can give method m: each required key in any of its
\* conditions, maxRows in any of its conditions where the handler reads it.
ParamsOf(m) ==
    LET req == IF m \in METHOD_TABLE
               THEN {Required(m)[i] : i \in 1..Len(Required(m))}
               ELSE {"sql"} IN
    { p \in [keys : [ParamKeys -> TextParams], maxRows : MaxRowsParams] :
        /\ \A k \in ParamKeys \ req : p.keys[k] = "missing"
        /\ (m \in METHOD_TABLE /\ ~TakesMaxRows(m)) => p.maxRows.kind = "absent" }

\* An unregistered method answered with a null result instead of an error.
DispatchAnswersUnknownMethod ==
    /\ pc = "idle"
    /\ IF method \notin METHOD_TABLE
       THEN /\ response' = [kind |-> "result", error |-> NoException]
            /\ pc' = "responded"
            /\ UNCHANGED <<called, err_trail, max_rows>>
       ELSE /\ called' = [handler |-> method, client |-> "none", args |-> <<>>,
                          max_rows |-> 0]
            /\ pc' = "responded"
            /\ UNCHANGED <<response, err_trail, max_rows>>
    /\ UNCHANGED <<params, envelopeVars, bridgeVars, pathVars, infoVars,
                   loopVars, sessionVars, lifecycleVars, scopeVars, inflight,
                   wire, clientVars, httpVars, classVars, principal, method,
                   rows, columns, has_next, next_token, status_state,
                   error_info, results_url, stream_error, served, pages>>

\* rpc.py lines 222-242 and the handler dispatch_rpc awaits, up to its call
\* of the client method.
Dispatch ==
    /\ pc = "idle"
    /\ IF method \notin METHOD_TABLE
       THEN /\ err_trail' = <<Exc("MethodNotFound",
                                  {"Method '", method, "' not found"})>>
            /\ response' = [kind |-> "error", error |-> err_trail'[1]]
            /\ pc' = "responded"
            /\ UNCHANGED <<called, max_rows>>
       ELSE IF CheckParams(method, params) # {"ok"}
       THEN /\ err_trail' = <<Exc("InvalidParams", CheckParams(method, params))>>
            /\ response' = [kind |-> "error", error |-> err_trail'[1]]
            /\ pc' = "responded"
            /\ called' = [called EXCEPT !.handler = method]
            /\ UNCHANGED max_rows
       ELSE /\ called' =
                [handler |-> method,
                 client |-> ClientMethod(method),
                 args |-> Required(method),
                 max_rows |-> IF TakesMaxRows(method)
                              THEN MaxRowsArg(params.maxRows) ELSE 0]
            /\ max_rows' = called'.max_rows
            /\ pc' = "called"
            /\ UNCHANGED <<response, err_trail>>
    /\ UNCHANGED <<params, envelopeVars, bridgeVars, pathVars, infoVars,
                   loopVars, sessionVars, lifecycleVars, scopeVars, inflight,
                   wire, clientVars, httpVars, classVars, principal, method,
                   rows, columns, has_next, next_token, status_state,
                   error_info, results_url, stream_error, served, pages>>

InitDispatch ==
    /\ ClientInit("mcp-client", DefaultRetryAttempts, DefaultRetryDelay)
    /\ HttpIdle
    /\ ClassIdle
    /\ pc = "idle"
    /\ principal = "anonymous"
    /\ method \in METHOD_TABLE \cup UnregisteredNames
    /\ params \in ParamsOf(method)
    /\ called = NothingCalled
    /\ request = NoRequest
    /\ reply = NoReply
    /\ LifecycleIdle
    /\ BridgeIdle
    /\ PathsIdle
    /\ InfoIdle
    /\ LoopIdle
    /\ SessionIdle
    /\ max_rows = 0
    /\ rows = <<>>
    /\ columns = <<>>
    /\ has_next = FALSE
    /\ next_token = NoUri
    /\ status_state = "UNKNOWN"
    /\ error_info = NoError
    /\ stream_error = FALSE
    /\ results_url = "none"
    /\ served = 0
    /\ pages = 0
    /\ err_trail = <<>>
    /\ response = [kind |-> "none", error |-> NoException]
    /\ inflight = [t \in Tasks |-> NoTask]
    /\ wire = {}
    /\ calls = [t \in Tasks |-> NoCall]
    /\ scope0 = <<Absent, Absent>>

NextDispatch == Dispatch

SpecDispatch == InitDispatch /\ [][NextDispatch]_vars

(***************************************************************************)
(* SpecEnvelope: the /mcp endpoint taken alone, answering one request.     *)
(***************************************************************************)
\* main.py line 175: trino_user = username or "anonymous"
TrinoUser(r) == IF r.auth = "ok" THEN "alice" ELSE "anonymous"

\* The request passes lines 160-215: it is authenticated or needs not be,
\* its body is a JSON object that fits the envelope, its version is 2.0.
ReachesDispatch(r) ==
    /\ r.auth # "missing"
    /\ r.body = "object"
    /\ SchemaOk(r)
    /\ r.jsonrpc = "2.0"

\* The dispatch ends in a way only a client call can bring about: every
\* handler raises InvalidParams before its client call, dispatch_rpc raises
\* MethodNotFound before any handler.
ContactsEngine(r) ==
    r.outcome \notin {"InvalidParams", "MethodNotFound", "InternalError"}

\* The client's user set before the authentication test.
EndpointSetsUserFirst ==
    /\ reply = NoReply
    /\ reply' = mcp_endpoint(request)
    /\ user' = TrinoUser(request)
    /\ called' = IF ReachesDispatch(request)
                 THEN [NothingCalled EXCEPT !.handler = "dispatch_rpc"]
                 ELSE called
    /\ last_sent' = IF ReachesDispatch(request) /\ ContactsEngine(request)
                    THEN Sent(IF request.outcome = "result" THEN "200"
                              ELSE "exception")
                    ELSE last_sent
    /\ UNCHANGED <<request, retry_attempts, retry_delay, http_headers, http_pc,
                   attempt, last_exception, waits, n_sent, http_exc,
                   classVars, reqVars, opVars, params,
                   inflight, wire, scopeVars, lifecycleVars,
                   sessionVars, loopVars, infoVars, bridgeVars, pathVars>>

\* main.py lines 157-247: the response, and what the handling leaves
\* behind: the client's user (line 218), the dispatch (line 222) and the
\* engine request the handler's client call sends.
Endpoint ==
    /\ reply = NoReply
    /\ reply' = mcp_endpoint(request)
    /\ user' = IF ReachesDispatch(request) THEN TrinoUser(request) ELSE user
    /\ called' = IF ReachesDispatch(request)
                 THEN [NothingCalled EXCEPT !.handler = "dispatch_rpc"]
                 ELSE called
    /\ last_sent' = IF ReachesDispatch(request) /\ ContactsEngine(request)
                    THEN Sent(IF request.outcome = "result" THEN "200"
                              ELSE "exception")
                    ELSE last_sent
    /\ UNCHANGED <<request, retry_attempts, retry_delay, http_headers, http_pc,
                   attempt, last_exception, waits, n_sent, http_exc,
                   classVars, reqVars, opVars, params,
                   inflight, wire, scopeVars, lifecycleVars,
                   sessionVars, loopVars, infoVars, bridgeVars, pathVars>>

InitEnvelope ==
    /\ ClientInit("mcp-client", DefaultRetryAttempts, DefaultRetryDelay)
    /\ HttpIdle
    /\ ClassIdle
    /\ RequestIdle
    /\ inflight = [t \in Tasks |-> NoTask]
    /\ wire = {}
    /\ calls = [t \in Tasks |-> NoCall]
    /\ scope0 = <<Absent, Absent>>
    /\ params = NoParams
    /\ called = NothingCalled
    /\ request \in Requests
    /\ reply = NoReply
    /\ LifecycleIdle
    /\ BridgeIdle
    /\ PathsIdle
    /\ InfoIdle
    /\ LoopIdle
    /\ SessionIdle

NextEnvelope == Endpoint

SpecEnvelope == InitEnvelope /\ [][NextEnvelope]_vars

(***************************************************************************)
(* SpecLifecycle: one asynchronous query.  run_query_async submits it, the *)
(* engine takes it through its states, and get_query_status is called      *)
(* again and again with the id that was returned.  Each call is shown as   *)
(* it ends.  SpecLifecycleFair is the same with an engine that keeps       *)
(* working and a caller whose polls keep getting through.                  *)
(***************************************************************************)
\* How the engine is going to end the query.
Fates == {"completes", "fails", "canceled"}

TerminalStates == {"FINISHED", "FAILED", "CANCELED"}

\* The exception a client method's call of _request_with_retry raises for
\* a failed outcome: the exception of a 401/403 as it is, the classified
\* last exception when every attempt has failed.
RetryFailure(outcome) ==
    IF CaughtByRetry(AttemptException(outcome))
    THEN handle_trino_error(AttemptException(outcome))
    ELSE AttemptException(outcome)

\* What the RPC caller gets when exception x is raised inside the try block
\* of a client method: x after the handler of the method and the handler
\* of the RPC handler.
Raised(x) == [kind |-> "error", query_id |-> Absent,
              error |-> Last(Propagate(<<x>>, 2))]

\* submit_query lines 325-347 under run_query_async: what is made of the
\* submission response b.
submit_query(b) ==
    IF b.error.present
    THEN Raised(FollowUpError(b.error))
    ELSE IF QueryIdOf(b) \in {Absent, ""}
    THEN Raised(Exc("TrinoQueryError",
                    {"Failed to extract query ID from response"}))
    ELSE [kind |-> "result", query_id |-> QueryIdOf(b), error |-> NoException]

\* The engine answers the submission with body b; a query it has accepted
\* is queued.
Submit ==
    /\ submitted.result = NoResult
    /\ \E b \in SubmitBodies, f \in Fates :
        /\ submitted' = [answered |-> TRUE, body |-> b,
                         result |-> submit_query(b)]
        /\ engine' = IF b.error.present THEN NoQuery
                     ELSE [state |-> "QUEUED", fate |-> f]
    /\ UNCHANGED <<observed, cancel_result, clientVars, httpVars, classVars,
                   reqVars, opVars, inflight, wire, scopeVars, dispatchVars,
                   envelopeVars, bridgeVars, pathVars, infoVars, loopVars,
                   sessionVars>>

\* The submission request fails in _request_with_retry.
SubmitFails ==
    /\ submitted.result = NoResult
    /\ \E outcome \in FailedOutcomes :
        submitted' = [answered |-> FALSE, body |-> NoBody,
                      result |-> Raised(RetryFailure(outcome))]
    /\ UNCHANGED <<engine, observed, cancel_result, clientVars, httpVars,
                   classVars, reqVars, opVars, inflight, wire, scopeVars,
                   dispatchVars, envelopeVars, bridgeVars, pathVars,
                   infoVars, loopVars, sessionVars>>

\* A terminal state left again.
EngineStepRestarts ==
    /\ engine.state # "NONE"
    /\ engine' = [engine EXCEPT !.state =
           CASE engine.state = "QUEUED" -> "PLANNING"
             [] engine.state = "PLANNING" -> "RUNNING"
             [] engine.state = "RUNNING" /\ engine.fate = "completes" -> "FINISHED"
             [] engine.state = "RUNNING" /\ engine.fate = "fails" -> "FAILED"
             [] engine.state = "RUNNING" /\ engine.fate = "canceled" -> "CANCELED"
             [] OTHER -> "RUNNING"]
    /\ UNCHANGED <<submitted, observed, cancel_result, clientVars, httpVars,
                   classVars, reqVars, opVars, inflight, wire, scopeVars,
                   dispatchVars, envelopeVars, bridgeVars, pathVars,
                   infoVars, loopVars, sessionVars>>

\* The engine's side of the "state" that get_query_status reads (line 371):
\* the query goes from QUEUED through PLANNING to RUNNING and ends as its
\* fate has it; a query that fails or is canceled may end before it runs.
\* A terminal state is never left.
EngineStep ==
    /\ engine.state \in {"QUEUED", "PLANNING", "RUNNING"}
    /\ \/ engine' = [engine EXCEPT !.state =
               CASE engine.state = "QUEUED" -> "PLANNING"
                 [] engine.state = "PLANNING" -> "RUNNING"
                 [] engine.state = "RUNNING" /\ engine.fate = "completes" -> "FINISHED"
                 [] engine.state = "RUNNING" /\ engine.fate = "fails" -> "FAILED"
                 [] engine.state = "RUNNING" /\ engine.fate = "canceled" -> "CANCELED"]
       \/ /\ engine.fate \in {"fails", "canceled"}
          /\ engine' = [engine EXCEPT !.state =
                 IF engine.fate = "fails" THEN "FAILED" ELSE "CANCELED"]
    /\ UNCHANGED <<submitted, observed, cancel_result, clientVars, httpVars,
                   classVars, reqVars, opVars, inflight, wire, scopeVars,
                   dispatchVars, envelopeVars, bridgeVars, pathVars,
                   infoVars, loopVars, sessionVars>>

\* A finished query reported as still running.
ReportedStateNeverFinished(state) ==
    IF state = "FINISHED" THEN "RUNNING" ELSE state

\* get_query_status line 371: query_info.get("state", "UNKNOWN")
ReportedState(state) == IF state = Absent THEN "UNKNOWN" ELSE state

\* get_query_status(query_id) with the id run_query_async returned gets the
\* query info and reports the state.
PollOk ==
    /\ submitted.result.kind = "result"
    /\ LET state == ReportedState(engine.state) IN
       observed' = [last |-> state,
                    terminal |-> IF /\ observed.terminal = "none"
                                    /\ state \in TerminalStates
                                 THEN state ELSE observed.terminal,
                    error |-> "None"]
    /\ UNCHANGED <<engine, submitted, cancel_result, clientVars, httpVars,
                   classVars, reqVars, opVars, inflight, wire, scopeVars,
                   dispatchVars, envelopeVars, bridgeVars, pathVars,
                   infoVars, loopVars, sessionVars>>

\* The same call failing in _request_with_retry: an error is answered and
\* no state is reported.
PollFails ==
    /\ submitted.result.kind = "result"
    /\ \E outcome \in FailedOutcomes :
        observed' = [observed EXCEPT
                        !.error = Raised(RetryFailure(outcome)).error.cls]
    /\ UNCHANGED <<engine, submitted, cancel_result, clientVars, httpVars,
                   classVars, reqVars, opVars, inflight, wire, scopeVars,
                   dispatchVars, envelopeVars, bridgeVars, pathVars,
                   infoVars, loopVars, sessionVars>>

InitLifecycle ==
    /\ ClientInit("mcp-client", DefaultRetryAttempts, DefaultRetryDelay)
    /\ HttpIdle
    /\ ClassIdle
    /\ RequestIdle
    /\ EndpointIdle

NextLifecycle ==
    \/ Submit
    \/ SubmitFails
    \/ EngineStep
    \/ PollOk
    \/ PollFails

SpecLifecycle == InitLifecycle /\ [][NextLifecycle]_vars

SpecLifecycleFair ==
    /\ InitLifecycle
    /\ [][NextLifecycle]_vars
    /\ WF_vars(EngineStep)
    /\ WF_vars(PollOk)

(***************************************************************************)
(* The claims.  C1, C7, C8 and C10 are about Spec, C2 about SpecUsers,     *)
(* C3 to C6 about SpecRetry, C9 about SpecClassify.                        *)
(***************************************************************************)
Min(a, b) == IF a < b THEN a ELSE b

\* The call is over as a failure, or can only end as one: the loop has run
\* out and nothing but the raise of line 224 is left.
FailsNow ==
    \/ http_pc = "raised"
    \/ (http_pc = "attempt" /\ attempt = retry_attempts)

\* Every attempt so far has failed with an exception the loop caught.
AllCaughtSoFar ==
    /\ n_sent = attempt
    /\ http_pc \in {"attempt", "raised"}
    /\ (n_sent > 0 => last_sent.status \in {"exception", "500", "404"})

\* The request has been answered with a JSON-RPC error of kind `code`.
FailedWith(code) ==
    /\ pc = "responded"
    /\ response.kind = "error"
    /\ ErrorCode(response.error.cls) = code

\* The engine's message holds none of the texts the classifier looks for.
PlainMessage(msg) == \A p \in msg : MarkersOf(p) = {}

\* C1: for every maxRows > 0 and every sequence of result pages, a first
\* page holding more than maxRows rows included, execute_query and
\* get_query_results return at most maxRows rows.
C1_RowsAtMostMaxRows ==
    ( /\ pc = "responded"
      /\ response.kind = "result"
      /\ method \in {"run_query_sync", "get_query_results"} ) =>
        (max_rows > 0 /\ Len(rows) <= max_rows)

\* C2: with two requests of different principals handled in any
\* interleaving, every HTTP call sent to the engine for a request carries
\* that request's own principal as the user identity.
C2_CallsCarryOwnPrincipal ==
    \A w \in wire : w.user = w.principal

\* C7: a request the engine answers with 401 or 403, or with a body whose
\* error object has an errorType containing ACCESS_DENIED or
\* PERMISSION_DENIED, makes the client operation and the RPC method fail
\* with the authentication-error kind, -33002.
C7_AuthFailuresSurfaceAsAuthKind ==
    ( /\ pc = "responded"
      /\ \/ last_sent.status \in {"401", "403"}
         \/ /\ error_info.present
            /\ response.kind = "error"
            /\ error_info.errorType \cap {"ACCESS_DENIED", "PERMISSION_DENIED"} # {} )
    => FailedWith(TRINO_AUTH_ERROR)

\* C8: the kind chosen when a failure is first classified inside the client
\* is the kind of the JSON-RPC error: the later passes through
\* handle_trino_error never change the code.
C8_ClassifiedOnce ==
    (pc = "responded" /\ response.kind = "error") =>
        \A i \in DOMAIN err_trail :
            err_trail[i].cls \in MCPClasses =>
                ErrorCode(err_trail[i].cls) = ErrorCode(response.error.cls)

\* C9: handle_trino_error applied to a transport failure whose message
\* contains "Connection refused" returns the connection-error kind, -33000.
C9_ConnectionRefusedIsConnectionKind ==
    (Has(cls_input.msg, "Connection refused") /\ cls_chain # <<>>) =>
        /\ cls_chain[1].cls = "TrinoConnectionError"
        /\ ErrorCode(cls_chain[1].cls) = TRINO_CONNECTION_ERROR
        /\ cls_chain[1].data = OriginalError(cls_input.msg)

C9_Witness ==
    /\ cls_input.cls = "ConnectionError"
    /\ cls_input.msg = {"Connection refused", "Invalid credentials"}
    /\ Len(cls_chain) = 1
    /\ ErrorCode(cls_chain[1].cls) = TRINO_CONNECTION_ERROR

\* C10: an engine error object whose errorType is SYNTAX_ERROR is surfaced
\* as the syntax-error kind, -33005, wherever it appears: in the first
\* response of execute_query, in a continuation page of it, or in the
\* response to submit_query.  (Stated for the engine messages that hold
\* none of the classifier's other texts.)
C10_SyntaxErrorKindEverywhere ==
    ( /\ pc = "responded"
      /\ method \in {"run_query_sync", "run_query_async"}
      /\ response.kind = "error"
      /\ error_info.present
      /\ error_info.errorType = {"SYNTAX_ERROR"}
      /\ PlainMessage(error_info.message) )
    => FailedWith(TRINO_SYNTAX_ERROR)

\* C3: with retry_attempts = N >= 1 and every attempt failing transiently
\* (connection failure or 5xx), the call makes exactly N attempts and then
\* fails; the wait after failed attempt k (0-based, k < N-1) is
\* retry_delay * 2^k and no wait follows the last attempt.
C3_ExactlyNAttemptsGeometricBackoff ==
    (retry_attempts >= 1 /\ AllCaughtSoFar) =>
        /\ n_sent <= retry_attempts
        /\ (FailsNow <=> n_sent = retry_attempts)
        /\ (http_pc = "raised" => http_exc.cls \in MCPClasses)
        /\ waits = [k \in 1..Min(n_sent, retry_attempts - 1) |->
                        retry_delay * Pow2(k - 1)]

C3_Witness ==
    /\ http_pc = "raised"
    /\ retry_attempts = 4
    /\ retry_delay = 2
    /\ n_sent = 4
    /\ last_sent.status = "500"
    /\ waits = <<2, 4, 8>>

\* C4: an attempt answered with a 4xx other than 401/403 is the call's only
\* attempt, and the call hands the response back to its caller.
C4_Other4xxReturnedUnretried ==
    last_sent.status = "404" => (n_sent = 1 /\ http_pc = "returned")

\* C5: an attempt answered 401 or 403 is the call's last attempt, no wait
\* follows it, and the call raises an authentication error at once.
C5_AuthStatusNotRetried ==
    last_sent.status \in {"401", "403"} =>
        /\ http_pc = "raised"
        /\ http_exc.cls = "TrinoAuthError"
        /\ ErrorCode(http_exc.cls) = TRINO_AUTH_ERROR
        /\ n_sent = attempt + 1
        /\ Len(waits) = attempt
        /\ Len(waits) = n_sent - 1

C5_Witness ==
    /\ retry_attempts = 3
    /\ n_sent = 2
    /\ last_exception.cls = "HTTPError"
    /\ last_sent.status = "403"
    /\ http_pc = "raised"
    /\ waits = <<retry_delay>>

\* C6 as stated: the first successful attempt is the last one and its
\* response is returned; the call fails only after all retry_attempts
\* attempts have failed.
C6_FailsOnlyAfterAllAttempts ==
    /\ last_sent.status = "200" <=> http_pc = "returned"
    /\ http_pc = "returned" => n_sent \in 1..retry_attempts
    /\ http_pc = "raised" => n_sent = retry_attempts

\* C6 amended: the first successful attempt is the last one and its
\* response is returned; the call fails either after all retry_attempts
\* attempts have failed, or at once on an attempt answered 401 or 403.
C6_FirstSuccessWins ==
    /\ last_sent.status = "200" <=> http_pc = "returned"
    /\ http_pc = "returned" =>
           /\ n_sent \in 1..retry_attempts
           /\ n_sent = attempt + 1
    /\ http_pc = "raised" =>
           \/ /\ n_sent = retry_attempts
              /\ attempt = retry_attempts
              /\ last_sent.status \notin {"200", "401", "403"}
           \/ /\ n_sent = attempt + 1
              /\ last_sent.status \in {"401", "403"}

C6_Witness ==
    /\ retry_attempts = 3
    /\ http_pc = "returned"
    /\ n_sent = 3
    /\ attempt = 2
    /\ last_exception.cls = "ConnectionError"
    /\ last_sent.status = "200"

(***************************************************************************)
(* Claims about the classifier and the result streams.  C11, C14 and C16   *)
(* are about Spec, C12 and C13 about SpecClassify.                         *)
(***************************************************************************)
\* The message says that something "does not exist" and mentions a
\* catalog, a schema or a table.
NamesMissingObject(msg) ==
    /\ Has(msg, "does not exist")
    /\ (Has(msg, "catalog") \/ Has(msg, "schema") \/ Has(msg, "table"))

\* C11: an engine error whose errorType contains RESOURCE_ERROR, or whose
\* message says "does not exist" and mentions a catalog, schema or table,
\* is classified as the resource-not-found kind, -33003, with a message
\* that names the category of the missing object.
C11_ResourceErrorsAreResourceKind ==
    ( /\ pc = "responded"
      /\ method \in {"run_query_sync", "run_query_async"}
      /\ response.kind = "error"
      /\ error_info.present
      /\ \/ /\ "RESOURCE_ERROR" \in error_info.errorType
            /\ PlainMessage(error_info.message)
         \/ /\ NamesMissingObject(error_info.message)
            /\ ~ConnectionRule(error_info.message)
            /\ ~AuthRule(error_info.message) )
    => /\ FailedWith(TRINO_RESOURCE_ERROR)
       /\ \E category \in {"Catalog not found: ", "Schema not found: ",
                           "Table not found: ", "Resource error: "} :
              category \in response.error.msg

\* The classifier of the specification: the same rules, tried in the order
\* authentication, connection, syntax, resource-not-found, timeout, generic.
ReferenceClassifier(msg) ==
    IF AuthRule(msg) THEN "TrinoAuthError"
    ELSE IF ConnectionRule(msg) THEN "TrinoConnectionError"
    ELSE IF SyntaxRule(msg) THEN "TrinoSyntaxError"
    ELSE IF Has(msg, "does not exist") THEN "TrinoResourceError"
    ELSE IF TimeoutRule(msg) THEN "TrinoTimeoutError"
    ELSE "TrinoQueryError"

\* C12: when a failure matches more than one rule, the kind is chosen in
\* the priority order authentication > connection > syntax >
\* resource-not-found > timeout > generic: handle_trino_error agrees with
\* the reference classifier for every combination of markers.
C12_PriorityOrderOfTheSpecification ==
    cls_chain # <<>> =>
        cls_chain[1].cls = ReferenceClassifier(cls_input.msg)

\* None of the rules of handle_trino_error matches the message.
NoRuleMatches(msg) ==
    /\ ~ConnectionRule(msg)
    /\ ~AuthRule(msg)
    /\ ~Has(msg, "does not exist")
    /\ ~SyntaxRule(msg)
    /\ ~TimeoutRule(msg)

\* C13: handle_trino_error is total: it returns an MCPError for every
\* failure, and when no rule matches it returns the generic query-error
\* kind, -33001, whose data carries the original failure message.
C13_TotalWithGenericFallThrough ==
    cls_chain # <<>> =>
        /\ cls_chain[1].cls \in MCPClasses
        /\ ErrorCode(cls_chain[1].cls) \in
               { TRINO_CONNECTION_ERROR, TRINO_QUERY_ERROR, TRINO_AUTH_ERROR,
                 TRINO_RESOURCE_ERROR, TRINO_TIMEOUT_ERROR, TRINO_SYNTAX_ERROR }
        /\ ( NoRuleMatches(cls_input.msg) =>
               /\ cls_chain[1].cls = "TrinoQueryError"
               /\ ErrorCode(cls_chain[1].cls) = TRINO_QUERY_ERROR
               /\ cls_chain[1].data =
                      [present |-> TRUE, original_error |-> cls_input.msg]
               /\ cls_chain[1].msg =
                      {"Error executing Trino query: "} \cup cls_input.msg )

C13_Witness ==
    /\ cls_input = Exc("Exception", {"mismatched input", "line"})
    /\ Len(cls_chain) = 1
    /\ cls_chain[1].cls = "TrinoQueryError"
    /\ cls_chain[1].data.original_error = {"mismatched input", "line"}

\* C14: an error object embedded in any response of a result stream, the
\* first response or a continuation page, of execute_query or of
\* get_query_results, stops the page-following loop and makes the
\* operation fail with a classified error instead of returning rows.
C14_EmbeddedErrorFailsTheOperation ==
    ( /\ pc = "responded"
      /\ method \in {"run_query_sync", "get_query_results"}
      /\ stream_error )
    => /\ response.kind = "error"
       /\ response.error.cls \in MCPClasses

\* C15: given any finite sequence of pages whose last page has no
\* continuation link, the page-following loop of execute_query terminates
\* after at most as many page fetches as there are pages, and after fewer
\* when the row cap is reached first.  A page is fetched only when the page
\* before it had a link and the cap is not reached, never past the last
\* page of the stream (its continuation page MaxPages + 1 at the latest);
\* every turn of the loop uses up one page of the stream; and until the
\* operation has ended its thread always has a step to take.
C15_PageLoopTerminates ==
    /\ [](pc = "exec_page" =>
            /\ has_next
            /\ Len(rows) < max_rows
            /\ pages <= MaxPages)
    /\ [](pc = "exec_loop" =>
            /\ pages <= MaxPages + 1
            /\ (pages = MaxPages + 1 => ~has_next))
    /\ [][(pc = "exec_page" /\ pc' \in {"exec_loop", "responded"}) =>
              \/ pages' = pages + 1
              \/ (pc' = "responded" /\ response'.kind = "error")]_vars
    /\ [](pc # "responded" => ENABLED NextExecute)

C15_Witness ==
    /\ pc = "responded"
    /\ method = "run_query_sync"
    /\ response.kind = "result"
    /\ pages = MaxPages + 1
    /\ ~has_next
    /\ Len(rows) < max_rows

\* C16: whenever the pages reachable through continuation links hold at
\* least maxRows rows in total, get_query_results returns exactly maxRows
\* rows and fetches no page after the cap is reached.
C16_ExactlyMaxRowsWhenEnough ==
    /\ ( /\ pc = "responded"
         /\ method = "get_query_results"
         /\ response.kind = "result"
         /\ served >= max_rows )
       => Len(rows) = max_rows
    /\ pc = "res_page" => Len(rows) < max_rows

(***************************************************************************)
(* Claims about the catalog and schema scope: C17 is about SpecScope, C18  *)
(* about SpecScopes.                                                       *)
(***************************************************************************)
\* C17: after list_schemas or list_tables returns or raises, the
\* X-Trino-Catalog and X-Trino-Schema entries of the client's headers are
\* exactly what they were before the call, same presence and same value,
\* including when the underlying query fails.
C17_ScopeRestoredExactly ==
    \A t \in Tasks :
        (calls[t].at = "done" /\ calls[t].op \in ScopedOps) =>
            Scope = calls[t].before

C17_Witness ==
    \E t \in Tasks :
        /\ calls[t].at = "done"
        /\ calls[t].op = "list_tables"
        /\ calls[t].failed
        /\ calls[t].before = <<"hive", "default">>
        /\ calls[t].sent = <<calls[t].catalog, "sf1">>
        /\ Scope = <<"hive", "default">>

\* The catalog and schema headers a call's engine request is to carry: its
\* own arguments where it sets them, and the client's own otherwise.
OwnScope(t) ==
    << IF calls[t].op \in ScopedOps THEN calls[t].catalog ELSE scope0[1],
       IF calls[t].op = "list_tables" THEN calls[t].schema ELSE scope0[2] >>

\* C18: when list_schemas/list_tables calls run concurrently with each
\* other or with other requests on the shared client, the scope set by one
\* call is confined to it: no engine request of another call carries it,
\* and once all calls have finished the catalog and schema headers equal
\* their values before any of them started.
C18_ScopeConfinedToItsCall ==
    /\ \A t \in Tasks :
           calls[t].at \in {"queried", "done"} => calls[t].sent = OwnScope(t)
    /\ (\A t \in Tasks : calls[t].at \in {"none", "done"}) => Scope = scope0

(***************************************************************************)
(* Claims about dispatch_rpc, under SpecDispatch.                          *)
(***************************************************************************)
\* C19: dispatch_rpc called with a method name that is not one of the
\* eight registered methods fails with MethodNotFound (code -32601) and
\* calls no handler and no client operation.
C19_UnregisteredMethodNotFound ==
    /\ Cardinality(METHOD_TABLE) = 8
    /\ (pc # "idle" /\ method \notin METHOD_TABLE) =>
           /\ pc = "responded"
           /\ response.kind = "error"
           /\ response.error.cls = "MethodNotFound"
           /\ ErrorCode(response.error.cls) = -32601
           /\ called = NothingCalled
           /\ n_sent = 0

C19_Witness ==
    /\ pc = "responded"
    /\ method = "List_Catalogs"
    /\ response.kind = "error"
    /\ response.error.cls = "MethodNotFound"

\* The parameters of a call that break the contract of method m: a required
\* key that is missing, not a string or blank, and maxRows, where m takes
\* it, that is not an integer or is <= 0.
Offending(m, p) ==
    {Required(m)[i] : i \in {j \in 1..Len(Required(m)) :
                                p.keys[Required(m)[j]] # "good"}}
    \cup IF /\ TakesMaxRows(m)
            /\ \/ p.maxRows.kind \in {"notint", "bool"}
               \/ (p.maxRows.kind = "int" /\ p.maxRows.value <= 0)
         THEN {"maxRows"}
         ELSE {}

\* C20: for every registered method, a call whose params miss a required
\* key, give it a non-string or blank value, or give maxRows a non-integer
\* or a value <= 0 fails with InvalidParams (code -32602) whose message
\* names the offending parameter; in particular run_query_sync with
\* params {} fails with a message referencing sql.
C20_ContractViolationIsInvalidParams ==
    (pc # "idle" /\ method \in METHOD_TABLE /\ Offending(method, params) # {}) =>
        /\ pc = "responded"
        /\ response.kind = "error"
        /\ response.error.cls = "InvalidParams"
        /\ ErrorCode(response.error.cls) = -32602
        /\ \E k \in Offending(method, params) : k \in response.error.msg
        /\ called.client = "none"

(***************************************************************************)
(* Claims about the /mcp endpoint and the asynchronous query methods.      *)
(***************************************************************************)
\* C21: for any call that fails parameter validation or names an unknown
\* method, no HTTP request is sent to the engine: the call is answered
\* without the client's request loop having been entered.
C21_RejectedCallsSendNothing ==
    (/\ pc = "responded"
     /\ response.kind = "error"
     /\ response.error.cls \in {"InvalidParams", "MethodNotFound"}) =>
        /\ last_sent = NothingSent
        /\ n_sent = 0
        /\ http_pc = "idle"

C21_Witness ==
    /\ pc = "responded"
    /\ method = "run_query_sync"
    /\ response.kind = "error"
    /\ response.error.cls = "InvalidParams"
    /\ "maxRows" \in response.error.msg
    /\ last_sent = NothingSent

\* C22: every response produced by the /mcp endpoint carries the same id
\* as the request it answers (string, integer or null), on the success
\* path, on every error path, and on the rejection paths taken before
\* dispatch.
C22_ResponseCarriesRequestId ==
    (/\ reply # NoReply
     /\ request.body = "object"
     /\ request.id \in EnvelopeIds) =>
        reply.id = request.id

\* A body that is a syntactically valid envelope: a JSON object that
\* passes the schema and carries the version tag 2.0.
ValidEnvelope(r) == r.body = "object" /\ SchemaOk(r) /\ r.jsonrpc = "2.0"

\* C23: every request whose body is a syntactically valid envelope is
\* answered at the normal success HTTP status with a JSON-RPC object
\* holding exactly one of result or error, whatever the method does; only
\* an unparseable body or an envelope schema violation is answered with an
\* error HTTP status.
C23_ValidEnvelopeAnsweredWithSuccessStatus ==
    reply # NoReply =>
        /\ ValidEnvelope(request) =>
               /\ reply.status = 200
               /\ reply.shape = "jsonrpc"
               /\ reply.has_result # reply.has_error
        /\ reply.status # 200 => ~ValidEnvelope(request)

\* C24: a failure during the handling of a method that is neither a
\* validation failure nor an engine/transport failure (an unexpected
\* exception, such as a malformed engine response that breaks row or
\* column extraction) reaches the caller as the internal-error kind (code
\* -32603) carrying the original message.
C24_UnexpectedFailureIsInternalError ==
    (/\ pc = "responded"
     /\ err_trail # <<>>
     /\ err_trail[1] \in UnexpectedExceptions) =>
        /\ response.kind = "error"
        /\ response.error.cls = "InternalError"
        /\ ErrorCode(response.error.cls) = -32603
        /\ err_trail[1].msg \subseteq response.error.msg

(***************************************************************************)
(* Claims about the asynchronous query methods: C25, C26 and C27 under     *)
(* SpecLifecycle, C30 under SpecLifecycleFair.                             *)
(***************************************************************************)
\* C25: submit_query returns the id field of the submission response when
\* present; otherwise the id parsed out of the continuation link; and
\* fails with the query-error kind when neither yields an id.  An explicit
\* id always takes precedence over the link, and an error object in the
\* response fails the call before any id is extracted.
C25_IdFieldThenLinkThenQueryError ==
    LET b == submitted.body
        r == submitted.result
        linked == b.next = "/v1/query/q1/results/1"
    IN  submitted.answered =>
            /\ b.error.present => (r.kind = "error" /\ r.query_id = Absent)
            /\ (~b.error.present /\ b.id = "q2") =>
                   (r.kind = "result" /\ r.query_id = "q2")
            /\ (~b.error.present /\ b.id \in {Absent, ""} /\ linked) =>
                   (r.kind = "result" /\ r.query_id = "q1")
            /\ (~b.error.present /\ b.id \in {Absent, ""} /\ ~linked) =>
                   /\ r.kind = "error"
                   /\ r.error.cls = "TrinoQueryError"
                   /\ ErrorCode(r.error.cls) = -33001

C25_Witness ==
    /\ submitted.answered
    /\ submitted.body.id = "q2"
    /\ submitted.body.next = "/v1/query/q1/results/1"
    /\ ~submitted.body.error.present
    /\ submitted.result.kind = "result"
    /\ submitted.result.query_id = "q2"

\* C26: for every query-info response the engine can give (any native
\* state string, or no state field at all), the state reported by
\* get_query_status is one of QUEUED, RUNNING, FINISHED, FAILED, CANCELED.
C26_ReportedStateInEnum ==
    observed.last # "none" =>
        observed.last \in {"QUEUED", "RUNNING", "FINISHED", "FAILED", "CANCELED"}

C30_SubmittedQueryEventuallyFinished ==
    /\ [](submitted.result.kind = "result" =>
              submitted.result.query_id \notin {Absent, ""})
    /\ (submitted.result.kind = "result" /\ engine.fate = "completes")
           ~> (observed.last = "FINISHED")

C30_Witness ==
    /\ submitted.result.kind = "result"
    /\ submitted.result.query_id = "q1"
    /\ engine.fate = "completes"
    /\ observed.last = "FINISHED"

\* The exception get_query_results raised after reading the status was
\* the one of lines 398-402 whose text holds phrase p.
StatusRefusal(p) ==
    /\ pc = "responded"
    /\ method = "get_query_results"
    /\ err_trail # <<>>
    /\ \/ p \in err_trail[1].msg
       \/ p \in err_trail[1].data.original_error

\* C28: get_query_results fetches no result page unless the status it
\* read is RUNNING or FINISHED: for CANCELED and for not-yet-ready states
\* it fails with the query-error kind, and for FAILED it fails with an
\* error that carries the engine's error payload (its message).
C28_ResultsOnlyForRunningOrFinished ==
    /\ pc \in {"res_checked", "res_info", "res_located", "res_first",
               "res_loop", "res_page"} =>
           status_state \in {"RUNNING", "FINISHED"}
    /\ (StatusRefusal("Query was canceled")
        \/ StatusRefusal("Query is not ready yet. Current state: ")) =>
           /\ response.error.cls = "TrinoQueryError"
           /\ last_sent.status = "200"
    /\ StatusRefusal("Query failed: ") =>
           /\ response.kind = "error"
           /\ \/ GetMessage(error_info, "Unknown error")
                     \subseteq response.error.msg
              \/ GetMessage(error_info, "Unknown error")
                     \subseteq response.error.data.original_error


(***************************************************************************)
(* SpecCancel: one cancel_query call of a client constructed with any      *)
(* retry_attempts and retry_delay.  The DELETE goes through                *)
(* _request_with_retry inside cancel_query's try block; the call ends with *)
(* `return True` or, from the `except Exception` clause, `return False`.   *)
(***************************************************************************)
cancelRest == <<clientVars, classVars, reqVars, opVars, inflight, wire,
                scopeVars, dispatchVars, envelopeVars, bridgeVars, pathVars,
                infoVars, loopVars, sessionVars, engine, submitted,
                observed>>

InitCancel ==
    /\ \E n \in 0..MaxAttempts, d \in 1..MaxDelay : ClientInit("mcp-client", n, d)
    /\ HttpIdle
    /\ ClassIdle
    /\ RequestIdle
    /\ EndpointIdle

\* cancel_query is entered: the try block calls _request_with_retry
\* ('delete', query_url).
CancelBegin ==
    /\ http_pc = "idle"
    /\ cancel_result = "none"
    /\ HttpBegin
    /\ UNCHANGED cancel_result
    /\ UNCHANGED cancelRest

\* The DELETE is answered 2xx: _request_with_retry returns and the next
\* statement is `return True`.
CancelReturns ==
    /\ HttpReturn
    /\ cancel_result' = "true"
    /\ UNCHANGED cancelRest

\* A DELETE attempt fails with an exception the retry loop catches.
CancelAttemptCaught ==
    /\ \E outcome \in FailedOutcomes : AttemptCaught(outcome)
    /\ UNCHANGED cancel_result
    /\ UNCHANGED cancelRest

\* A DELETE attempt answered 401 or 403: TrinoAuthError leaves the retry
\* loop and reaches cancel_query's except clause.
CancelAttemptUncaught ==
    /\ \E outcome \in FailedOutcomes : AttemptUncaught(outcome)
    /\ UNCHANGED cancel_result
    /\ UNCHANGED cancelRest

\* The retry loop is over without a return: line 224 raises.
CancelGivesUp ==
    /\ RetryExhausted
    /\ UNCHANGED cancel_result
    /\ UNCHANGED cancelRest

\* The except clause re-raising instead of returning.
CancelFailsRaises ==
    /\ http_pc = "raised"
    /\ http_pc' = "caught"
    /\ cancel_result' = "raised"
    /\ UNCHANGED <<attempt, last_exception, waits, n_sent, http_exc, last_sent>>
    /\ UNCHANGED cancelRest

\* `except Exception as e`: the error is logged and the call returns False.
CancelFails ==
    /\ http_pc = "raised"
    /\ http_pc' = "caught"
    /\ cancel_result' = "false"
    /\ UNCHANGED <<attempt, last_exception, waits, n_sent, http_exc, last_sent>>
    /\ UNCHANGED cancelRest

NextCancel ==
    \/ CancelBegin
    \/ CancelReturns
    \/ CancelAttemptCaught
    \/ CancelAttemptUncaught
    \/ CancelGivesUp
    \/ CancelFails

SpecCancel == InitCancel /\ [][NextCancel]_vars

\* C29: cancel_query never raises.  While the call runs it has no result;
\* when it has ended the result is true exactly when the DELETE was
\* answered 2xx, and false exactly when _request_with_retry raised (all
\* attempts failed, a 401/403, or no attempt at all); no other outcome
\* exists.
C29_CancelReturnsTrueOrFalse ==
    /\ cancel_result \in {"none", "true", "false"}
    /\ (cancel_result = "none") <=> (http_pc \in {"idle", "attempt", "raised"})
    /\ (cancel_result = "true") <=>
           (http_pc = "returned" /\ last_sent.status = "200")
    /\ (cancel_result = "false") <=>
           (http_pc = "caught" /\ http_exc # NoException)
    /\ http_pc = "caught" /\ n_sent > 0 => last_sent.status # "200"

\* A cancellation that failed on the transport at every one of at least
\* two attempts and returned false.
C29_Witness ==
    /\ cancel_result = "false"
    /\ retry_attempts >= 2
    /\ n_sent = retry_attempts
    /\ last_sent.status = "exception"


(***************************************************************************)
(* Claims about the result sets of the two query paths.                    *)
(***************************************************************************)
\* C31: on success run_query_sync returns the engine's columns and, as
\* rows, the first min(total rows, maxRows) rows of the pages' data joined
\* in fetch order: row i of the answer is row i of the stream, none
\* reordered, duplicated or skipped.
C31_SyncResultIsPrefixOfStream ==
    ( /\ pc = "responded"
      /\ response.kind = "result"
      /\ method = "run_query_sync" ) =>
        /\ columns \in ColumnLists
        /\ rows = RowsFrom(0, Min(served, max_rows))


(***************************************************************************)
(* SpecSession: a client constructed with any session_properties mapping   *)
(* of up to MaxProps keys, and the requests one _request_with_retry call   *)
(* of it sends.                                                            *)
(***************************************************************************)
MaxProps == 2

PropKeys == {"query_max_run_time", "join_distribution_type", "optimize_hash_generation"}

PropValues == {"1h", "true"}

\* f"{key}={value}"
Pair(key, value) == <<key, "=", value>>

\* A dict is a sequence of items with distinct keys, in insertion order.
SessionMappings ==
    { m \in UNION { [1..k -> PropKeys \X PropValues] : k \in 0..MaxProps } :
        \A i, j \in DOMAIN m : m[i][1] = m[j][1] => i = j }

\* __init__ lines 66-67: for each item the one entry "X-Trino-Session" of
\* the headers is assigned f"{key}={value}".
RECURSIVE SessionHeader(_, _)
SessionHeader(header, items) ==
    IF items = <<>> THEN header
    ELSE SessionHeader(Pair(Head(items)[1], Head(items)[2]), Tail(items))

\* The pairs a header value holds: one pair, or none when there is no
\* such header.
PairsIn(header) == IF header = Absent THEN {} ELSE {header}

InitSession ==
    /\ \E n \in 1..MaxAttempts, d \in 1..MaxDelay : ClientInit("mcp-client", n, d)
    /\ \E m \in SessionMappings :
        /\ session_properties = m
        /\ session_header = SessionHeader(Absent, m)
    /\ wire_session = "none"
    /\ http_pc = "attempt"
    /\ attempt = 0
    /\ last_exception = NoException
    /\ waits = <<>>
    /\ n_sent = 0
    /\ http_exc = NoException
    /\ last_sent = NothingSent
    /\ ClassIdle
    /\ RequestIdle
    /\ inflight = [t \in Tasks |-> NoTask]
    /\ wire = {}
    /\ calls = [t \in Tasks |-> NoCall]
    /\ scope0 = <<Absent, Absent>>
    /\ params = NoParams
    /\ called = NothingCalled
    /\ request = NoRequest
    /\ reply = NoReply
    /\ LifecycleIdle
    /\ BridgeIdle
    /\ PathsIdle
    /\ InfoIdle
    /\ LoopIdle

sessionRest == <<clientVars, classVars, reqVars, opVars, inflight, wire,
                 scopeVars, dispatchVars, envelopeVars, bridgeVars, pathVars,
                 infoVars, loopVars, lifecycleVars, session_properties,
                 session_header>>

\* requests.request(..., headers=self.http_headers) of line 202, answered
\* 2xx.
SessionReturns ==
    /\ HttpReturn
    /\ wire_session' = session_header
    /\ UNCHANGED sessionRest

SessionCaught ==
    /\ \E outcome \in FailedOutcomes : AttemptCaught(outcome)
    /\ wire_session' = session_header
    /\ UNCHANGED sessionRest

SessionUncaught ==
    /\ \E outcome \in FailedOutcomes : AttemptUncaught(outcome)
    /\ wire_session' = session_header
    /\ UNCHANGED sessionRest

SessionGivesUp ==
    /\ RetryExhausted
    /\ UNCHANGED wire_session
    /\ UNCHANGED sessionRest

NextSession ==
    \/ SessionReturns
    \/ SessionCaught
    \/ SessionUncaught
    \/ SessionGivesUp

SpecSession == InitSession /\ [][NextSession]_vars

\* C32: every request sent to the engine carries each of the k key=value
\* pairs of the session properties the client was constructed with.
C32_RequestsCarryAllSessionProperties ==
    n_sent > 0 =>
        \A i \in DOMAIN session_properties :
            Pair(session_properties[i][1], session_properties[i][2])
                \in PairsIn(wire_session)


(***************************************************************************)
(* SpecLoop: the asyncio event loop serving concurrent inbound requests.   *)
(* A coroutine runs on the loop's one thread until it awaits; a blocking   *)
(* call made by a coroutine keeps the thread until it returns.  The        *)
(* engine answers whenever it likes.                                       *)
(***************************************************************************)
\* What an inbound request can ask for: one of the eight RPC methods over
\* POST /mcp, or GET /health.
Served == METHOD_TABLE \cup {"health"}

\* Where the engine call of a handler runs: the RPC handlers call the
\* client through `await asyncio.to_thread(...)`, health_check calls
\* client.check_connection() directly.
IoThread(serves) == IF serves \in METHOD_TABLE THEN "worker" ELSE "loop"

loopRest == <<clientVars, httpVars, classVars, reqVars, opVars, inflight,
              wire, scopeVars, dispatchVars, envelopeVars, bridgeVars,
              pathVars, infoVars, lifecycleVars, sessionVars>>

\* A request arrives and its coroutine is scheduled.
LoopArrive(t, serves) ==
    /\ coros[t] = NoCoro
    /\ coros' = [coros EXCEPT ![t] = [serves |-> serves, at |-> "ready",
                                      io |-> "none"]]
    /\ UNCHANGED loop_holder

\* The loop runs the coroutine up to its engine call: the call starts in a
\* worker thread and the coroutine is suspended, or it starts on the loop's
\* thread, which the coroutine keeps.
LoopRun(t) ==
    /\ coros[t].at = "ready"
    /\ loop_holder = 0
    /\ coros' = [coros EXCEPT ![t].at = "io", ![t].io = IoThread(coros[t].serves)]
    /\ loop_holder' = IF IoThread(coros[t].serves) = "loop" THEN t ELSE 0

\* The engine call of a request ends, with a response or a failure.  A
\* call on the loop's thread returns into its coroutine, which answers and
\* gives the thread back; a call in a worker thread wakes its coroutine.
LoopIoDone(t) ==
    /\ coros[t].at = "io"
    /\ IF coros[t].io = "loop"
       THEN /\ coros' = [coros EXCEPT ![t].at = "answered"]
            /\ loop_holder' = 0
       ELSE /\ coros' = [coros EXCEPT ![t].at = "woken"]
            /\ UNCHANGED loop_holder

\* The loop resumes a woken coroutine, which answers.
LoopResume(t) ==
    /\ coros[t].at = "woken"
    /\ loop_holder = 0
    /\ coros' = [coros EXCEPT ![t].at = "answered"]
    /\ UNCHANGED loop_holder

\* The response has gone out; the connection can carry the next request.
LoopDepart(t) ==
    /\ coros[t].at = "answered"
    /\ coros' = [coros EXCEPT ![t] = NoCoro]
    /\ UNCHANGED loop_holder

RequestArrives ==
    \E t \in Tasks, serves \in Served :
        LoopArrive(t, serves) /\ UNCHANGED loopRest
CoroRuns == \E t \in Tasks : LoopRun(t) /\ UNCHANGED loopRest
IoEnds == \E t \in Tasks : LoopIoDone(t) /\ UNCHANGED loopRest
CoroResumes == \E t \in Tasks : LoopResume(t) /\ UNCHANGED loopRest
RequestDeparts == \E t \in Tasks : LoopDepart(t) /\ UNCHANGED loopRest

InitLoop ==
    /\ ClientInit("mcp-client", DefaultRetryAttempts, DefaultRetryDelay)
    /\ HttpIdle
    /\ ClassIdle
    /\ RequestIdle
    /\ EndpointIdle

NextLoop ==
    \/ RequestArrives
    \/ CoroRuns
    \/ IoEnds
    \/ CoroResumes
    \/ RequestDeparts

SpecLoop == InitLoop /\ [][NextLoop]_vars

\* C33: every engine call runs off the event loop, in a worker thread, so
\* that while the engine call of one request is outstanding the loop is
\* free to run the coroutine of any other request that is ready.
C33_EngineCallsRunOffTheLoop ==
    \A t \in Tasks :
        coros[t].at = "io" =>
            /\ coros[t].io = "worker"
            /\ \A u \in Tasks \ {t} :
                   coros[u].at \in {"ready", "woken"} => loop_holder = 0


PageSeqs ==
    UNION { [1..k -> [columns : ColumnLists, ndata : 0..MaxPageRows]] :
              k \in 1..(MaxPages + 1) }

\* The number of rows in the pages before page i.
RECURSIVE RowsBefore(_, _)
RowsBefore(ps, i) ==
    IF i <= 1 THEN 0 ELSE RowsBefore(ps, i - 1) + ps[i - 1].ndata

\* results["data"] of page i: the next rows of the stream.
DataOf(ps, i) == RowsFrom(RowsBefore(ps, i), ps[i].ndata)

\* execute_query lines 273-298: the while loop, page i being the last one
\* read.
RECURSIVE SyncLoop(_, _, _, _, _)
SyncLoop(ps, i, cols, rs, max) ==
    IF i < Len(ps) /\ Len(rs) < max
    THEN LET p == ps[i + 1]
             cols2 == IF p.columns # <<>> /\ cols = <<>> THEN p.columns ELSE cols
             more == rs \o DataOf(ps, i + 1)
         IN  IF p.ndata > 0 /\ Len(more) >= max
             THEN [columns |-> cols2, rows |-> SubSeq(more, 1, max),
                   nextToken |-> 0, done |-> TRUE]
             ELSE SyncLoop(ps, i + 1, cols2, more, max)
    ELSE [columns |-> cols, rows |-> rs, nextToken |-> 0, done |-> TRUE]

\* execute_query lines 239-303 on pages without error objects.
SyncResult(ps, max) == SyncLoop(ps, 1, ps[1].columns, DataOf(ps, 1), max)

\* get_query_results lines 451-464: the while loop; next_token is the
\* number of the page its link leads to, 0 for None.
RECURSIVE AsyncLoop(_, _, _, _, _)
AsyncLoop(ps, next_tok, cols, rs, max) ==
    IF next_tok # 0 /\ Len(rs) < max
    THEN LET p == ps[next_tok]
             more == rs \o DataOf(ps, next_tok)
         IN  IF p.ndata > 0 /\ Len(more) > max
             THEN [columns |-> cols, rows |-> SubSeq(more, 1, max),
                   nextToken |-> next_tok, done |-> TRUE]
             ELSE AsyncLoop(ps, IF next_tok < Len(ps) THEN next_tok + 1 ELSE 0,
                            cols, more, max)
    ELSE [columns |-> cols, rows |-> rs, nextToken |-> next_tok, done |-> TRUE]

\* get_query_results lines 432-470, from the first page of results on.
AsyncResult(ps, max) ==
    IF 1 < Len(ps) /\ Len(DataOf(ps, 1)) < max
    THEN AsyncLoop(ps, 2, ps[1].columns, DataOf(ps, 1), max)
    ELSE [columns |-> ps[1].columns, rows |-> DataOf(ps, 1), nextToken |-> 0,
          done |-> TRUE]

pathsRest == <<clientVars, httpVars, classVars, reqVars, opVars, inflight,
               wire, scopeVars, dispatchVars, envelopeVars, bridgeVars,
               lifecycleVars, sessionVars, loopVars, infoVars, bridgeVars,
               page_seq, path_max_rows>>

RunSync ==
    /\ ~sync_result.done
    /\ sync_result' = SyncResult(page_seq, path_max_rows)
    /\ UNCHANGED async_result
    /\ UNCHANGED pathsRest

RunAsync ==
    /\ ~async_result.done
    /\ async_result' = AsyncResult(page_seq, path_max_rows)
    /\ UNCHANGED sync_result
    /\ UNCHANGED pathsRest

InitPaths ==
    /\ ClientInit("mcp-client", DefaultRetryAttempts, DefaultRetryDelay)
    /\ HttpIdle
    /\ ClassIdle
    /\ RequestIdle
    /\ inflight = [t \in Tasks |-> NoTask]
    /\ wire = {}
    /\ calls = [t \in Tasks |-> NoCall]
    /\ scope0 = <<Absent, Absent>>
    /\ params = NoParams
    /\ called = NothingCalled
    /\ request = NoRequest
    /\ reply = NoReply
    /\ LifecycleIdle
    /\ BridgeIdle
    /\ SessionIdle
    /\ LoopIdle
    /\ InfoIdle
    /\ page_seq \in PageSeqs
    /\ path_max_rows \in 1..MaxRows
    /\ sync_result = NoPathResult
    /\ async_result = NoPathResult

NextPaths ==
    \/ RunSync
    \/ RunAsync

SpecPaths == InitPaths /\ [][NextPaths]_vars

\* C35: on the same result pages with the same maxRows, get_query_results
\* returns the columns and the rows that execute_query returns, also when
\* the column list first appears on a page after the first.
C35_AsyncPathEqualsSyncPath ==
    (sync_result.done /\ async_result.done) =>
        /\ async_result.columns = sync_result.columns
        /\ async_result.rows = sync_result.rows


\* C36: get_query_results returns a nextToken exactly when the last page
\* it consumed carried a continuation link, also when the first page alone
\* reaches maxRows and when a page is cut at the cap; it returns null when
\* that page carried none.
C36_NextTokenIffMoreRemain ==
    ( /\ pc = "responded"
      /\ response.kind = "result"
      /\ method = "get_query_results" ) =>
        ((next_token # NoUri) <=> has_next)


\* C37: when the status read of a get_query_results call saw the query
\* RUNNING and the query-info read that follows sees it FAILED or CANCELED,
\* the call does not go on to request a result page.
C37_NoFetchOnceInfoShowsFailure ==
    [][ ( /\ pc = "res_located"
          /\ status_state = "RUNNING"
          /\ query_info.state \in {"FAILED", "CANCELED"} )
        => pc' # "res_first" ]_vars


(***************************************************************************)
(* SpecCredentials: the shared client's user field and its X-Trino-User    *)
(* header under construction, set_credentials calls, inbound /mcp          *)
(* requests and the engine requests sent in between.                       *)
(***************************************************************************)
\* The user argument of the constructor (TRINO_USER, "mcp-client" by
\* default).
ConstructedUsers == {"mcp-client", "trino"}

\* The user argument of set_credentials: None, empty, or a name.
CredentialUsers == {Absent, "", "alice", "bob"}

credentialsRest == <<retry_attempts, retry_delay, classVars, reqVars, opVars,
                     endpointVars>>

\* set_credentials lines 95-97: `if user:` sets the field and the header
\* together.  (password and jwt_token go to the Authorization header, of
\* which the user header is independent.)
SetCredentials ==
    /\ \E u \in CredentialUsers :
        IF u \notin {Absent, ""}
        THEN /\ user' = u
             /\ http_headers' = [http_headers EXCEPT !["X-Trino-User"] = u]
        ELSE UNCHANGED <<user, http_headers>>
    /\ UNCHANGED httpVars
    /\ UNCHANGED credentialsRest

\* main.py line 218: trino_client.get_client().user = trino_user
EndpointSetsUser ==
    /\ \E u \in Principals : user' = u
    /\ UNCHANGED <<http_headers, httpVars>>
    /\ UNCHANGED credentialsRest

\* requests.request(..., headers=self.http_headers): one request goes out
\* and is answered.
CredentialsSend ==
    /\ \E status \in {"200", "401", "500"} : last_sent' = Sent(status)
    /\ UNCHANGED <<user, http_headers, http_pc, attempt, last_exception,
                   waits, n_sent, http_exc>>
    /\ UNCHANGED credentialsRest

InitCredentials ==
    /\ \E u \in ConstructedUsers :
           ClientInit(u, DefaultRetryAttempts, DefaultRetryDelay)
    /\ HttpIdle
    /\ ClassIdle
    /\ RequestIdle
    /\ EndpointIdle

NextCredentials ==
    \/ SetCredentials
    \/ EndpointSetsUser
    \/ CredentialsSend

SpecCredentials == InitCredentials /\ [][NextCredentials]_vars

\* C38: after any sequence of construction, set_credentials calls and
\* inbound /mcp requests, the X-Trino-User header that goes to the engine
\* is the client's current user field.
C38_UserHeaderEqualsUserField ==
    /\ [](http_headers["X-Trino-User"] = user)
    /\ [][last_sent' # last_sent => last_sent'.user = user]_vars


\* C39: with authentication enabled, a /mcp request without valid
\* credentials is answered with the authentication error, and its handling
\* dispatches no method, sends the engine nothing and leaves the shared
\* client as it was.
C39_UnauthenticatedRequestHasNoEffect ==
    (reply # NoReply /\ request.auth = "missing") =>
        /\ reply = ErrorReply(401, "null", TRINO_AUTH_ERROR)
        /\ called = NothingCalled
        /\ last_sent = NothingSent
        /\ n_sent = 0
        /\ user = "mcp-client"
        /\ http_headers = Headers("mcp-client", Absent, Absent)
        /\ retry_attempts = DefaultRetryAttempts
        /\ retry_delay = DefaultRetryDelay

\* An unauthenticated request that is valid in everything else, answered.
C39_Witness ==
    /\ reply # NoReply
    /\ request.auth = "missing"
    /\ ReachesDispatch([request EXCEPT !.auth = "ok"])
    /\ request.outcome = "result"


(***************************************************************************)
(* SpecBridge: mcp_stdio_bridge.py, reading up to MaxLines lines from      *)
(* stdin and writing to stdout.                                            *)
(***************************************************************************)
MaxLines == 3

\* What a line of stdin can be: blank; not JSON; an envelope whose method
\* is "initialize"; or another envelope, whose POST to the gateway is
\* answered with JSON, is answered with something else, or fails.
InputLines ==
    {"blank", "garbage", "initialize", "forwarded", "non_json_answer",
     "transport_error"}

\* print(json.dumps(...), flush=True): one line of stdout, with the number
\* of the input line being handled.
OutLine(kind, code, cause) == [kind |-> kind, code |-> code, cause |-> cause]

\* The handshake line the module docstring describes.
Handshake == [kind |-> "handshake", code |-> 0, cause |-> 0]

\* Lines 40-104: what one iteration of the loop writes for line number n.
Written(line, n) ==
    CASE line = "blank" -> <<>>
      [] line = "garbage" -> <<OutLine("error", PARSE_ERROR, n)>>
      [] line = "initialize" ->
            <<OutLine("result", 0, n), OutLine("notification", 0, n)>>
      [] line = "transport_error" -> <<OutLine("error", -32000, n)>>
      [] line = "non_json_answer" -> <<OutLine("error", INTERNAL_ERROR, n)>>
      [] line = "forwarded" -> <<OutLine("forwarded", 0, n)>>

bridgeRest == <<clientVars, httpVars, classVars, reqVars, opVars, inflight,
                wire, scopeVars, dispatchVars, envelopeVars, lifecycleVars,
                sessionVars, loopVars, infoVars, pathVars>>

\* One iteration of `for raw_line in sys.stdin`.
BridgeLine ==
    /\ bridge_in < MaxLines
    /\ \E line \in InputLines :
        /\ bridge_in' = bridge_in + 1
        /\ bridge_out' = bridge_out \o Written(line, bridge_in + 1)
    /\ UNCHANGED bridgeRest

InitBridge ==
    /\ ClientInit("mcp-client", DefaultRetryAttempts, DefaultRetryDelay)
    /\ HttpIdle
    /\ ClassIdle
    /\ RequestIdle
    /\ EndpointIdle

NextBridge == BridgeLine

SpecBridge == InitBridge /\ [][NextBridge]_vars

\* C40: before it reads any input line the bridge has written exactly one
\* handshake line to stdout, and every later line of stdout is a response
\* or notification caused by an input line read before it was written.
C40_HandshakeFirstThenResponses ==
    /\ bridge_out # <<>>
    /\ bridge_out[1] = Handshake
    /\ \A i \in 2..Len(bridge_out) :
           /\ bridge_out[i].kind # "handshake"
           /\ bridge_out[i].cause \in 1..bridge_in

====
